---- MODULE Spec2Model ----
(***************************************************************************)
(* Pipeline actors of src/src/pipeline.rs: the inbound bounded channel,    *)
(* the routing table (dests), the registered sources (onramps), the actor  *)
(* loop of Manager::start_pipeline with send_events, send_signal and       *)
(* handle_insight, the tick task, and the manager that starts pipelines    *)
(* (Manager::start, Manager::start_pipeline).                              *)
(***************************************************************************)
EXTENDS Integers, Sequences, FiniteSets, TLC

\* ---------------------------------------------------------------- bounds
\* Manager.qsize: the capacity of every pipeline's inbound channel.
QSize == 1
\* Manager.qsize where the order of the messages queued in a channel is
\* looked at.
OrderQSize == 2
\* The most events one enqueue / enqueue_signal call leaves in eventset.
MaxOut == 2
\* The most insights one enqueue_signal call returns.
MaxInsights == 1
\* The most messages the outside world (sources, control plane) sends.
MaxEnv == 3
\* The longest destination list of a routing table drawn as an input.
MaxList == 3

\* channel(64): the capacity of the manager's channel.
MgrQSize == 64

\* ------------------------------------------------------------- universe
Pipelines == {"p1", "p2"}
Offramps == {"o1", "o2"}
Sources == {"s1", "s2"}
Ports == {"out", "err"}

\* Option::None of TremorURL::instance_port.
NoPort == "none"

\* A TremorURL, as far as the pipeline reads it: the instance and the
\* optional instance port.
URL(inst, port) == [inst |-> inst, port |-> port]

InstancePort(id) == id.port

\* req.id of the Create request that started pipeline p.
OwnId(p) == URL(p, "in")

\* (TremorURL, Dest) pairs, as the Connect messages carry them.
OfframpEntry(id, o) == [id |-> id, kind |-> "Offramp", addr |-> o]
PipelineEntry(id, q) == [id |-> id, kind |-> "Pipeline", addr |-> q]

VARIABLES
    full,      \* the sources, offramps and reply channels whose channel is
               \* full: a send to them waits
    ctlq,      \* ctlq[p]: the sends to sources handle_insight has yet to make
    scenario,  \* the configs the pipelines were created from and what the
               \* outside world sends them; fixed from the start
    chan,      \* chan[p]: the messages in pipeline p's inbound channel
    dests,     \* dests[p]: output port -> Vec<(TremorURL, Dest)>
    onramps,   \* onramps[p]: TremorURL -> onramp::Addr
    closed,    \* offramps whose receiver is gone: a send to them fails
    sigq,      \* sigq[p]: the sends send_signal still has to make
    nins,      \* nins[p]: insights of enqueue_signal not yet handled
    evq,       \* evq[p]: the sends send_events still has to make
    eventset,  \* eventset[p]: the pairs in the actor's eventset between two
               \*              messages
    cur,       \* cur[p]: the message being (or last) processed, and what
               \*         the graph answered
    log,       \* log[p]: what the actor sent while processing cur[p]
    budget,    \* messages the outside world has sent
    mchan,     \* the ManagerMsg messages in the manager's channel
    mstate,    \* "running" while the manager's loop runs, then "stopped"
    actor,     \* actor[p]: "none" before start_pipeline, "starting" while
               \*           start_pipeline holds rx and has spawned the tick
               \*           task but not yet the thread, "running" once the
               \*           actor thread is spawned, "nospawn" when spawning
               \*           it failed (rx is dropped with the closure)
    tick,      \* tick[p]: "none", "running" once the tick task is spawned,
               \*          "over" once its while loop has ended
    reply,     \* reply[p]: what Create was answered: "none" (not yet),
               \*           "addr" (Ok(Addr)) or "err"
    outcome,   \* outcome[p]: what start_pipeline returned for the Create the
               \*             manager has in hand, "addr" or "err", while
               \*             r.send(..).await is not through; "none" otherwise
    locals,    \* Helper.locals: resolved name -> local slot index
    shadowed_vars, \* Helper.shadowed_vars: the identifiers shadowed, outermost first
    slots,     \* slots[i]: the slot register_shadow_var returned for
               \*           shadowed_vars[i] on the map now in locals, NoSlot
               \*           when it was registered on a map swapped out since
    outer,     \* outer[i]: the slot shadowed_vars[i] resolved to before it was
               \*           shadowed, NoSlot when it had none or the map was
               \*           swapped out since
    handed,    \* the (resolved name, index) pairs var_id has returned on
               \*           the map now in locals
    ret,       \* the last Helper call and what it returned
    functions, \* Helper.functions: module-qualified name -> index into func_vec
    func_vec,  \* Helper.func_vec: the functions registered
    calls,     \* the functions register_fun was called with, oldest first
    registered, \* what the last call of register_fun returned
    state,     \* SyslogTLS.state: ExpectFrameSize or ExpectBytes(n), or
               \*                  Panicked once process has panicked
    frame_buffer, \* SyslogTLS.frame_buffer
    before,    \* state and frame_buffer when process was last called
    data,      \* the chunk last given to process
    returned,  \* what process returned for it
    steps,     \* how that call of parse went: the length of source at each
               \* iteration of its header loop, and how deep it recursed
    stream,    \* the frames of the octet-counted stream a peer sends
    unread,    \* the bytes of the stream not yet given to process
    emitted,   \* the frames process has returned for the stream so far
    expr,      \* the node try_reduce is called on
    const_values, \* helper.const_values when try_reduce is called
    reduced,   \* what try_reduce returned, "none" before the call
    script,    \* Script.exprs: the top-level expressions
    event,     \* the event Script::run is given
    evaluated, \* the expressions run evaluated, each with its result_needed
    ran        \* what Script::run returned, "none" before the call

mgrvars == <<mchan, mstate, actor, tick, reply, outcome>>

pipevars == <<scenario, full, ctlq, eventset, chan, dests, onramps, closed, sigq, nins, evq, cur, log, budget, mgrvars>>

regvars == <<functions, func_vec, calls, registered>>

helpervars == <<locals, shadowed_vars, slots, outer, handed, ret, regvars>>

streamvars == <<stream, unread, emitted>>

syslogvars == <<state, frame_buffer, before, data, returned, steps, streamvars>>

foldvars == <<expr, const_values, reduced>>

runvars == <<script, event, evaluated, ran>>

langvars == <<helpervars, syslogvars, foldvars, runvars>>

\* What a Helper call leaves alone, and what a preprocessor call does.
notHelper == <<pipevars, syslogvars, foldvars, runvars>>
notSyslog == <<pipevars, helpervars, foldvars, runvars>>
notFold == <<pipevars, helpervars, syslogvars, runvars>>
notRun == <<pipevars, helpervars, syslogvars, foldvars>>

vars == <<pipevars, langvars>>

\* No local slot.
NoSlot == -1

\* Helper::new: no locals, nothing shadowed; nothing called yet.
HelperNew ==
    /\ locals = [x \in {} |-> 0]
    /\ shadowed_vars = <<>>
    /\ slots = <<>>
    /\ outer = <<>>
    /\ handed = {}
    /\ ret = [op |-> "new", id |-> "", idx |-> NoSlot]
    /\ functions = [x \in {} |-> 0]
    /\ func_vec = <<>>
    /\ calls = <<>>
    /\ registered = [res |-> "none"]

\* The state of the script compiler and of the preprocessors while the
\* pipelines run: freshly constructed.
\* ParseState
ExpectFrameSize == [tag |-> "ExpectFrameSize", bytes |-> 0]
ExpectBytes(n) == [tag |-> "ExpectBytes", bytes |-> n]
Panicked == [tag |-> "Panicked", bytes |-> 0]

\* Result<Vec<Vec<u8>>>, or the panic that unwinds out of process.
Ok(frames) == [out |-> "ok", frames |-> frames]
Err == [out |-> "err", frames |-> <<>>]
Panic == [out |-> "panic", frames |-> <<>>]

\* SyslogTLS::new; process not called yet.
SyslogNew ==
    /\ state = ExpectFrameSize
    /\ frame_buffer = <<>>
    /\ before = [state |-> ExpectFrameSize, frame_buffer |-> <<>>]
    /\ data = <<>>
    /\ returned = [out |-> "none", frames |-> <<>>]
    /\ steps = [sources |-> <<>>, depth |-> 0]

\* No stream to read.
NoStream ==
    /\ stream = <<>>
    /\ unread = <<>>
    /\ emitted = <<>>

\* No node handed to try_reduce.
NoFold ==
    /\ expr = [struct |-> "none"]
    /\ const_values = <<>>
    /\ reduced = [res |-> "none"]

\* No script to run.
NoRun ==
    /\ script = <<>>
    /\ event = [type |-> "null"]
    /\ evaluated = <<>>
    /\ ran = [res |-> "none"]

LangNew ==
    /\ HelperNew
    /\ SyslogNew
    /\ NoStream
    /\ NoFold
    /\ NoRun

\* ------------------------------------------------------------- helpers
EmptyMap == [x \in {} |-> <<>>]
Put(f, k, v) == [x \in (DOMAIN f) \cup {k} |-> IF x = k THEN v ELSE f[x]]
\* Mutant of Del: the key stays.
DelNothing(f, k) == f
Del(f, k) == [x \in (DOMAIN f) \ {k} |-> f[x]]

RECURSIVE SeqOfSet(_)
SeqOfSet(S) ==
    IF S = {} THEN <<>>
    ELSE LET x == CHOOSE y \in S : TRUE IN <<x>> \o SeqOfSet(S \ {x})

RECURSIVE Flatten(_)
Flatten(ss) == IF ss = <<>> THEN <<>> ELSE Head(ss) \o Flatten(Tail(ss))

\* Every order in which a HashMap may yield the keys S.
Orders(S) ==
    {o \in [1..Cardinality(S) -> S] : \A i, j \in DOMAIN o : o[i] = o[j] => i = j}

\* Sequences over S of length at most n.
SeqsUpTo(S, n) == UNION {[1..k -> S] : k \in 0..n}

\* ------------------------------------------------------------- messages
EventMsg(input, ev) == [type |-> "Event", input |-> input, ev |-> ev]
SignalMsg(kind) == [type |-> "Signal", kind |-> kind]
InsightMsg == [type |-> "Insight"]
ConnectOfframpMsg(port, id, o) ==
    [type |-> "ConnectOfframp", port |-> port, id |-> id, addr |-> o]
ConnectPipelineMsg(port, id, q) ==
    [type |-> "ConnectPipeline", port |-> port, id |-> id, addr |-> q]
ConnectOnrampMsg(id, s) == [type |-> "ConnectOnramp", id |-> id, addr |-> s]
DisconnectOutputMsg(port, id) ==
    [type |-> "DisconnectOutput", port |-> port, id |-> id]
DisconnectInputMsg(id) == [type |-> "DisconnectInput", id |-> id]

\* bounded::<Msg>(self.qsize): the capacity the manager was configured
\* with.
qsize == IF scenario = "order" THEN OrderQSize ELSE QSize

\* A bounded crossbeam channel accepts a message only below its capacity;
\* at capacity the sender blocks.
CanSend(q) == Len(chan[q]) < qsize

\* Mutant of ChanSend: try_send, which gives up on a full channel and
\* lets the sender go on without its message.
ChanTrySend(q, m) ==
    chan' = IF CanSend(q) THEN [chan EXCEPT ![q] = Append(@, m)] ELSE chan

\* Sender::send on a pipeline's channel: blocks while the channel is full,
\* then the message is the last of the channel.
ChanSend(q, m) ==
    /\ CanSend(q)
    /\ chan' = [chan EXCEPT ![q] = Append(@, m)]

\* ---------------------------------------------------------------- graph
Scenarios ==
    {"route", "signal", "insight", "cycle", "chain", "flush", "create", "partial"}

\* The kind of graph pipeline p's config builds. "script": a stateless
\* graph whose operators may send an event on to any ports, any number of
\* times, and emit nothing for a signal; "breaker": a graph whose operators
\* pass events on and may return insights for a signal; "batch": a graph
\* whose operators may, for a signal, emit held events on "out" and return
\* insights; "branch": a graph that passes the event to "out" and to an
\* operator that may fail on it after the first branch has reached "out";
\* "pass": every event goes to "out" unchanged.
Config(p) ==
    IF p = "p1"
    THEN (CASE scenario = "route" -> "script"
            [] scenario = "signal" -> "breaker"
            [] scenario = "insight" -> "breaker"
            [] scenario = "flush" -> "batch"
            [] scenario = "partial" -> "branch"
            [] OTHER -> "pass")
    ELSE "pass"

Result(ok, es, n) == [ok |-> ok, eventset |-> es, insights |-> n]
EventSets(ev) == SeqsUpTo([port : Ports, ev : {ev}], MaxOut)

\* ExecutableGraph::enqueue of pipeline p for the event ev: Err or Ok, with
\* the (output port, event) pairs it has pushed onto eventset.
Enqueue(p, ev) ==
    CASE Config(p) = "script" ->
            {Result(FALSE, <<>>, 0)} \cup {Result(TRUE, es, 0) : es \in EventSets(ev)}
      [] Config(p) = "branch" ->
            {Result(ok, <<[port |-> "out", ev |-> ev]>>, 0) : ok \in BOOLEAN}
      [] OTHER -> {Result(TRUE, <<[port |-> "out", ev |-> ev]>>, 0)}

\* ExecutableGraph::enqueue_signal of pipeline p: Err, or Ok with the
\* insights returned and the pairs left in eventset.
EnqueueSignal(p) ==
    CASE Config(p) = "breaker" ->
            {Result(FALSE, <<>>, 0)}
                \cup {Result(TRUE, <<>>, n) : n \in 0..MaxInsights}
      [] Config(p) = "batch" ->
            {Result(FALSE, <<>>, 0)}
                \cup {Result(TRUE, es, n) :
                        es \in SeqsUpTo([port : {"out"}, ev : {"held"}], MaxOut),
                        n \in 0..MaxInsights}
      [] OTHER -> {Result(TRUE, <<>>, 0)}

\* ExecutableGraph::contraflow: the insight as the operators leave it, read
\* through its metadata flags trigger and restore.
Flags == [trigger : BOOLEAN, restore : BOOLEAN]
Contraflow == Flags

\* ----------------------------------------------------------- send_events
\* The sends of one (output, event) pair, the n-th of eventset, to the
\* destination list ds: clones to the first len - 1, the event itself to
\* the last.
FanOut(ds, output, ev, n) ==
    [i \in 1..Len(ds) |->
        [id |-> ds[i].id, kind |-> ds[i].kind, addr |-> ds[i].addr,
         port |-> output, ev |-> ev, n |-> n, clone |-> i < Len(ds)]]

\* Mutant of SendEventsFrom: an event on a port without an entry ends the
\* loop.
RECURSIVE SendEventsFromStops(_, _, _)
SendEventsFromStops(events, d, n) ==
    IF n > Len(events) THEN <<>>
    ELSE IF events[n].port \in DOMAIN d
    THEN FanOut(d[events[n].port], events[n].port, events[n].ev, n)
            \o SendEventsFromStops(events, d, n + 1)
    ELSE <<>>

RECURSIVE SendEventsFrom(_, _, _)
SendEventsFrom(events, d, n) ==
    IF n > Len(events) THEN <<>>
    ELSE (IF events[n].port \in DOMAIN d
          THEN FanOut(d[events[n].port], events[n].port, events[n].ev, n)
          ELSE <<>>)
         \o SendEventsFrom(events, d, n + 1)

\* Mutant of SendEvents: every event goes to the destinations of every
\* port, as send_signal visits them.
SendEventsAnyPort(events, d) ==
    LET ports == SeqOfSet(DOMAIN d)
        all == Flatten([i \in 1..Len(ports) |-> d[ports[i]]])
    IN  Flatten([n \in 1..Len(events) |->
                    FanOut(all, events[n].port, events[n].ev, n)])

\* The sends send_events makes for events with routing table d, in order,
\* as long as none fails.
SendEvents(events, d) == SendEventsFrom(events, d, 1)

\* The bounded channel of offramp o (bounded(self.qsize)) is at capacity:
\* addr.send waits until the offramp's thread has taken a message.
OfframpFull(o) == o \in full

\* A send of send_events fails when the id has no instance port, or the
\* destination's channel is closed.
EventSendFails(op) ==
    \/ InstancePort(op.id) = NoPort
    \/ op.kind = "Offramp" /\ op.addr \in closed

\* ----------------------------------------------------------- send_signal
\* Mutant of SendSignal: the own-id test is made in the loop only, not for
\* the first entry.
SendSignalFirstUnchecked(own_id, kind, d, order) ==
    LET flat == Flatten([i \in 1..Len(order) |-> d[order[i]]])
        Op(e, c) == [id |-> e.id, kind |-> e.kind, addr |-> e.addr,
                     signal |-> kind, clone |-> c]
        rest == [i \in 1..(Len(flat) - 1) |-> Op(flat[i + 1], TRUE)]
        first == IF flat = <<>> THEN <<>> ELSE <<Op(flat[1], FALSE)>>
    IN  SelectSeq(rest, LAMBDA op : op.id # own_id) \o first

\* The entries send_signal visits when the map yields its ports in `order`:
\* all but the first (clones), then the first (the signal itself); entries
\* with the pipeline's own id are left out.
SendSignal(own_id, kind, d, order) ==
    LET flat == Flatten([i \in 1..Len(order) |-> d[order[i]]])
        Op(e, c) == [id |-> e.id, kind |-> e.kind, addr |-> e.addr,
                     signal |-> kind, clone |-> c]
        rest == [i \in 1..(Len(flat) - 1) |-> Op(flat[i + 1], TRUE)]
        first == IF flat = <<>> THEN <<>> ELSE <<Op(flat[1], FALSE)>>
    IN  SelectSeq(rest \o first, LAMBDA op : op.id # own_id)

\* Mutant of SignalSkipped: a Tick is sent on to pipelines like any signal.
SignalSkippedNever(op) == FALSE

\* Dest::send_signal sends nothing to a pipeline when the signal is a Tick.
SignalSkipped(op) == op.kind = "Pipeline" /\ op.signal = "Tick"

SignalSendFails(op) == op.kind = "Offramp" /\ op.addr \in closed

\* -------------------------------------------------------- handle_insight
\* The sends of the control message msg for the i-th insight: one to
\* every source of srcs, in the order the map yields its entries.
Ctl(srcs, msg, i, order) ==
    [k \in 1..Len(order) |->
        [id |-> order[k], addr |-> srcs[order[k]], msg |-> msg, i |-> i]]

\* Mutant of HandleInsight: two independent ifs instead of if / else if.
HandleInsightBoth(srcs, f, i, order) ==
    (IF f.trigger THEN Ctl(srcs, "Trigger", i, order) ELSE <<>>)
        \o (IF f.restore THEN Ctl(srcs, "Restore", i, order) ELSE <<>>)

\* Mutant of HandleInsight: the loop over the sources ends after the first
\* send.
HandleInsightFirstOnly(srcs, f, i, order) ==
    LET First(ctls) == IF ctls = <<>> THEN <<>> ELSE <<Head(ctls)>>
    IN  IF f.trigger THEN First(Ctl(srcs, "Trigger", i, order))
        ELSE IF f.restore THEN First(Ctl(srcs, "Restore", i, order))
        ELSE <<>>

\* The sends handle_insight has to make for the i-th insight of the
\* message, whose metadata after contraflow has the flags f; each of them
\* is awaited before the next.
HandleInsight(srcs, f, i, order) ==
    IF f.trigger THEN Ctl(srcs, "Trigger", i, order)
    ELSE IF f.restore THEN Ctl(srcs, "Restore", i, order)
    ELSE <<>>

\* ------------------------------------------------------------------ Init
\* cur[p] between two messages: the actor waits in `for req in rx`.
NoCur == [msg |-> [type |-> "None"], ok |-> TRUE, eventset |-> <<>>,
          flags |-> <<>>]
Idle(p) == cur[p] = NoCur
\* The arm of the message is through: nothing is left to send.
Done(p) ==
    ~Idle(p) /\ sigq[p] = <<>> /\ ctlq[p] = <<>> /\ nins[p] = 0 /\ evq[p] = <<>>
Cur(m, ok, es) == [msg |-> m, ok |-> ok, eventset |-> es, flags |-> <<>>]

\* The pipelines created, from configs that build, before the scenario
\* begins: none in the scenario "create", the one pipeline of the scenarios
\* around a single pipeline, both in the others.
Created ==
    CASE scenario = "create" -> {}
      [] scenario \in {"insight", "flush", "partial"} -> {"p1"}
      [] OTHER -> Pipelines

Init ==
    /\ scenario \in Scenarios
    /\ mchan = <<>>
    /\ mstate = "running"
    /\ actor = [p \in Pipelines |-> IF p \in Created THEN "running" ELSE "none"]
    /\ tick = [p \in Pipelines |-> IF p \in Created THEN "running" ELSE "none"]
    /\ reply = [p \in Pipelines |-> IF p \in Created THEN "addr" ELSE "none"]
    /\ outcome = [p \in Pipelines |-> "none"]
    /\ chan = [p \in Pipelines |-> <<>>]
    /\ dests = [p \in Pipelines |-> EmptyMap]
    /\ onramps = [p \in Pipelines |-> EmptyMap]
    /\ closed = {}
    /\ sigq = [p \in Pipelines |-> <<>>]
    /\ nins = [p \in Pipelines |-> 0]
    /\ evq = [p \in Pipelines |-> <<>>]
    /\ eventset = [p \in Pipelines |-> <<>>]
    /\ full = {}
    /\ ctlq = [p \in Pipelines |-> <<>>]
    /\ cur = [p \in Pipelines |-> NoCur]
    /\ log = [p \in Pipelines |-> <<>>]
    /\ budget = 0
    /\ LangNew

\* ------------------------------------------------------------ actor loop
\* Mutant of Take: a Signal waiting in the channel is taken ahead of the
\* messages sent before it.
TakeSignalFirst(q) ==
    LET sigs == {i \in DOMAIN q : q[i].type = "Signal"}
        i == IF sigs = {} THEN 1
             ELSE CHOOSE k \in sigs : \A l \in sigs : k <= l
    IN  [msg |-> q[i],
         rest |-> SubSeq(q, 1, i - 1) \o SubSeq(q, i + 1, Len(q))]

\* for req in rx, on the non-empty queue q of the channel: req is the
\* message sent first, the others stay as they are.
Take(q) == [msg |-> Head(q), rest |-> Tail(q)]

\* for req in rx: the actor, between two messages, takes the next message
\* of its channel.
Receives(p, type) ==
    /\ actor[p] = "running"
    /\ Idle(p)
    /\ chan[p] # <<>>
    /\ Take(chan[p]).msg.type = type
    /\ chan' = [chan EXCEPT ![p] = Take(@).rest]
    /\ log' = [log EXCEPT ![p] = <<>>]

\* Msg::Event: enqueue pushes its pairs onto eventset; then send_events on
\* Ok, which drains eventset whether its sends fail or not. On Err eventset
\* is not touched again.
RecvEvent(p) ==
    /\ Receives(p, "Event")
    /\ \E r \in Enqueue(p, Take(chan[p]).msg.ev) :
        LET pushed == eventset[p] \o r.eventset IN
        /\ cur' = [cur EXCEPT ![p] = Cur(Take(chan[p]).msg, r.ok, pushed)]
        /\ evq' = [evq EXCEPT ![p] =
                      IF r.ok THEN SendEvents(pushed, dests[p]) ELSE <<>>]
        /\ eventset' = [eventset EXCEPT ![p] = IF r.ok THEN <<>> ELSE pushed]
    /\ UNCHANGED <<langvars, mgrvars, scenario, full, ctlq, dests, onramps, closed, sigq, nins, budget>>

\* Msg::Signal: enqueue_signal pushes its pairs onto eventset; then on Ok
\* send_signal, handle_insight for each insight, send_events.
RecvSignal(p) ==
    /\ Receives(p, "Signal")
    /\ \E r \in EnqueueSignal(p), order \in Orders(DOMAIN dests[p]) :
        LET pushed == eventset[p] \o r.eventset IN
        /\ cur' = [cur EXCEPT ![p] = Cur(Take(chan[p]).msg, r.ok, pushed)]
        /\ sigq' = [sigq EXCEPT ![p] =
                       IF r.ok
                       THEN SendSignal(OwnId(p), Take(chan[p]).msg.kind,
                                       dests[p], order)
                       ELSE <<>>]
        /\ nins' = [nins EXCEPT ![p] = IF r.ok THEN r.insights ELSE 0]
        /\ evq' = [evq EXCEPT ![p] =
                      IF r.ok THEN SendEvents(pushed, dests[p]) ELSE <<>>]
        /\ eventset' = [eventset EXCEPT ![p] = IF r.ok THEN <<>> ELSE pushed]
    /\ UNCHANGED <<langvars, mgrvars, scenario, full, ctlq, dests, onramps, closed, budget>>

\* Msg::Insight: block_on(handle_insight), up to its first send:
\* contraflow, then the sends to make are those to the sources the map
\* yields.
RecvInsight(p) ==
    /\ Receives(p, "Insight")
    /\ \E f \in Contraflow, order \in Orders(DOMAIN onramps[p]) :
        /\ cur' = [cur EXCEPT ![p] =
                      [Cur(Take(chan[p]).msg, TRUE, <<>>) EXCEPT !.flags = <<f>>]]
        /\ ctlq' = [ctlq EXCEPT ![p] = HandleInsight(onramps[p], f, 1, order)]
    /\ UNCHANGED <<langvars, mgrvars, scenario, full, eventset, dests, onramps, closed, sigq, nins, evq, budget>>

\* Mutant of Connect: the new entry is put in front of the port's list.
ConnectInFront(d, m) ==
    LET e == [id |-> m.id,
              kind |-> IF m.type = "ConnectOfframp" THEN "Offramp"
                       ELSE "Pipeline",
              addr |-> m.addr]
    IN  IF m.port \in DOMAIN d
        THEN [d EXCEPT ![m.port] = <<e>> \o @]
        ELSE Put(d, m.port, <<e>>)

\* Msg::ConnectOfframp and Msg::ConnectPipeline: push onto the port's list,
\* or insert a list of one.
Connect(d, m) ==
    LET e == [id |-> m.id,
              kind |-> IF m.type = "ConnectOfframp" THEN "Offramp"
                       ELSE "Pipeline",
              addr |-> m.addr]
    IN  IF m.port \in DOMAIN d
        THEN [d EXCEPT ![m.port] = Append(@, e)]
        ELSE Put(d, m.port, <<e>>)

RecvConnectOfframp(p) ==
    /\ Receives(p, "ConnectOfframp")
    /\ cur' = [cur EXCEPT ![p] = Cur(Take(chan[p]).msg, TRUE, <<>>)]
    /\ dests' = [dests EXCEPT ![p] = Connect(@, Take(chan[p]).msg)]
    /\ UNCHANGED <<langvars, mgrvars, scenario, full, ctlq, eventset, onramps, closed, sigq, nins, evq, budget>>

RecvConnectPipeline(p) ==
    /\ Receives(p, "ConnectPipeline")
    /\ cur' = [cur EXCEPT ![p] = Cur(Take(chan[p]).msg, TRUE, <<>>)]
    /\ dests' = [dests EXCEPT ![p] = Connect(@, Take(chan[p]).msg)]
    /\ UNCHANGED <<langvars, mgrvars, scenario, full, ctlq, eventset, onramps, closed, sigq, nins, evq, budget>>

\* Msg::ConnectOnramp: onramps.insert.
RecvConnectOnramp(p) ==
    /\ Receives(p, "ConnectOnramp")
    /\ cur' = [cur EXCEPT ![p] = Cur(Take(chan[p]).msg, TRUE, <<>>)]
    /\ onramps' = [onramps EXCEPT ![p] =
                      Put(@, Take(chan[p]).msg.id, Take(chan[p]).msg.addr)]
    /\ UNCHANGED <<langvars, mgrvars, scenario, full, ctlq, eventset, dests, closed, sigq, nins, evq, budget>>

\* Mutant of DisconnectOutput: the port's list is removed as soon as one
\* of its entries has the id.
DisconnectOutputWholePort(d, m) ==
    IF m.port \in DOMAIN d
    THEN (IF \E i \in DOMAIN d[m.port] : d[m.port][i].id = m.id
          THEN Del(d, m.port) ELSE d)
    ELSE d

\* Mutant of DisconnectOutput: the port keeps its list when the list has
\* become empty.
DisconnectOutputKeepsEmpty(d, m) ==
    IF m.port \in DOMAIN d
    THEN [d EXCEPT ![m.port] = SelectSeq(@, LAMBDA e : e.id # m.id)]
    ELSE d

\* Mutant of DisconnectOutput: the id is taken out of the list of every
\* port.
DisconnectOutputEveryPort(d, m) ==
    LET kept(port) == SelectSeq(d[port], LAMBDA e : e.id # m.id)
        left == {port \in DOMAIN d : kept(port) # <<>>}
    IN  [port \in left |-> kept(port)]

\* Msg::DisconnectOutput: retain the entries with another id, remove the
\* port's list when it has become empty.
DisconnectOutput(d, m) ==
    IF m.port \in DOMAIN d
    THEN LET kept == SelectSeq(d[m.port], LAMBDA e : e.id # m.id)
         IN  IF kept = <<>> THEN Del(d, m.port)
             ELSE [d EXCEPT ![m.port] = kept]
    ELSE d

RecvDisconnectOutput(p) ==
    /\ Receives(p, "DisconnectOutput")
    /\ cur' = [cur EXCEPT ![p] = Cur(Take(chan[p]).msg, TRUE, <<>>)]
    /\ dests' = [dests EXCEPT ![p] = DisconnectOutput(@, Take(chan[p]).msg)]
    /\ UNCHANGED <<langvars, mgrvars, scenario, full, ctlq, eventset, onramps, closed, sigq, nins, evq, budget>>

\* Msg::DisconnectInput: onramps.remove.
RecvDisconnectInput(p) ==
    /\ Receives(p, "DisconnectInput")
    /\ cur' = [cur EXCEPT ![p] = Cur(Take(chan[p]).msg, TRUE, <<>>)]
    /\ onramps' = [onramps EXCEPT ![p] = Del(@, Take(chan[p]).msg.id)]
    /\ UNCHANGED <<langvars, mgrvars, scenario, full, ctlq, eventset, dests, closed, sigq, nins, evq, budget>>

Logged(what, op, res) == [what |-> what, op |-> op, res |-> res]

\* The next send of send_signal: Dest::send_signal. A failed send ends
\* send_signal (the ? operator).
SignalStep(p) ==
    /\ sigq[p] # <<>>
    /\ LET op == Head(sigq[p]) IN
        IF SignalSendFails(op)
        THEN /\ sigq' = [sigq EXCEPT ![p] = <<>>]
             /\ log' = [log EXCEPT ![p] = Append(@, Logged("signal", op, "err"))]
             /\ UNCHANGED chan
        ELSE IF SignalSkipped(op)
        THEN /\ sigq' = [sigq EXCEPT ![p] = Tail(@)]
             /\ log' = [log EXCEPT ![p] = Append(@, Logged("signal", op, "skip"))]
             /\ UNCHANGED chan
        ELSE /\ sigq' = [sigq EXCEPT ![p] = Tail(@)]
             /\ log' = [log EXCEPT ![p] = Append(@, Logged("signal", op, "ok"))]
             /\ IF op.kind = "Pipeline"
                THEN ChanSend(op.addr, SignalMsg(op.signal))
                ELSE ~OfframpFull(op.addr) /\ UNCHANGED chan
    /\ UNCHANGED <<langvars, mgrvars, scenario, full, ctlq, eventset, dests, onramps, closed, nins, evq, cur, budget>>

\* block_on(handle_insight) for the next insight enqueue_signal returned,
\* up to its first send.
InsightStep(p) ==
    /\ sigq[p] = <<>>
    /\ ctlq[p] = <<>>
    /\ nins[p] > 0
    /\ \E f \in Contraflow, order \in Orders(DOMAIN onramps[p]) :
        /\ cur' = [cur EXCEPT ![p].flags = Append(@, f)]
        /\ ctlq' = [ctlq EXCEPT ![p] =
                       HandleInsight(onramps[p], f, Len(cur[p].flags) + 1, order)]
    /\ nins' = [nins EXCEPT ![p] = @ - 1]
    /\ UNCHANGED <<langvars, mgrvars, scenario, full, eventset, chan, dests, onramps, closed, sigq, evq, log, budget>>

\* The next send of handle_insight: o.send(..).await on the source's
\* bounded channel, which waits while the channel is full and cannot fail.
CtlStep(p) ==
    /\ ctlq[p] # <<>>
    /\ Head(ctlq[p]).addr \notin full
    /\ ctlq' = [ctlq EXCEPT ![p] = Tail(@)]
    /\ log' = [log EXCEPT ![p] = Append(@, Logged("ctl", Head(ctlq[p]), "ok"))]
    /\ UNCHANGED <<langvars, mgrvars, scenario, full, eventset, chan, dests, onramps, closed, sigq, nins, evq, cur, budget>>

\* Mutant of EventStep: a destination whose send failed is taken out of
\* the routing table.
EventStepForgets(p) ==
    /\ sigq[p] = <<>>
    /\ nins[p] = 0
    /\ ctlq[p] = <<>>
    /\ evq[p] # <<>>
    /\ LET op == Head(evq[p]) IN
        IF EventSendFails(op)
        THEN /\ evq' = [evq EXCEPT ![p] = <<>>]
             /\ log' = [log EXCEPT ![p] = Append(@, Logged("event", op, "err"))]
             /\ dests' = [dests EXCEPT ![p] =
                             DisconnectOutput(@, DisconnectOutputMsg(op.port, op.id))]
             /\ UNCHANGED chan
        ELSE /\ evq' = [evq EXCEPT ![p] = Tail(@)]
             /\ log' = [log EXCEPT ![p] = Append(@, Logged("event", op, "ok"))]
             /\ IF op.kind = "Pipeline"
                THEN ChanSend(op.addr, EventMsg(InstancePort(op.id), op.ev))
                ELSE ~OfframpFull(op.addr) /\ UNCHANGED chan
             /\ UNCHANGED dests
    /\ UNCHANGED <<langvars, mgrvars, scenario, full, ctlq, eventset, onramps, closed, sigq, nins, cur, budget>>

\* Mutant of EventStep: send_events is called before send_signal and the
\* insights are through.
EventStepEarly(p) ==
    /\ evq[p] # <<>>
    /\ LET op == Head(evq[p]) IN
        IF EventSendFails(op)
        THEN /\ evq' = [evq EXCEPT ![p] = <<>>]
             /\ log' = [log EXCEPT ![p] = Append(@, Logged("event", op, "err"))]
             /\ UNCHANGED chan
        ELSE /\ evq' = [evq EXCEPT ![p] = Tail(@)]
             /\ log' = [log EXCEPT ![p] = Append(@, Logged("event", op, "ok"))]
             /\ IF op.kind = "Pipeline"
                THEN ChanSend(op.addr, EventMsg(InstancePort(op.id), op.ev))
                ELSE ~OfframpFull(op.addr) /\ UNCHANGED chan
    /\ UNCHANGED <<langvars, mgrvars, scenario, full, ctlq, eventset, dests, onramps, closed, sigq, nins, cur, budget>>

\* The next send of send_events: the instance port of the id, then
\* Dest::send_event. A failure ends send_events (the ? operator); the drain
\* drops the events not yet sent.
EventStep(p) ==
    /\ sigq[p] = <<>>
    /\ nins[p] = 0
    /\ ctlq[p] = <<>>
    /\ evq[p] # <<>>
    /\ LET op == Head(evq[p]) IN
        IF EventSendFails(op)
        THEN /\ evq' = [evq EXCEPT ![p] = <<>>]
             /\ log' = [log EXCEPT ![p] = Append(@, Logged("event", op, "err"))]
             /\ UNCHANGED chan
        ELSE /\ evq' = [evq EXCEPT ![p] = Tail(@)]
             /\ log' = [log EXCEPT ![p] = Append(@, Logged("event", op, "ok"))]
             /\ IF op.kind = "Pipeline"
                THEN ChanSend(op.addr, EventMsg(InstancePort(op.id), op.ev))
                ELSE ~OfframpFull(op.addr) /\ UNCHANGED chan
    /\ UNCHANGED <<langvars, mgrvars, scenario, full, ctlq, eventset, dests, onramps, closed, sigq, nins, cur, budget>>

\* Mutant of Finish: an error of enqueue, enqueue_signal, send_signal or
\* send_events leaves the loop (as a ? on it would).
FinishUnlessFailed(p) ==
    /\ Done(p)
    /\ cur[p].ok
    /\ \A k \in DOMAIN log[p] : log[p][k].res # "err"
    /\ cur' = [cur EXCEPT ![p] = NoCur]
    /\ log' = [log EXCEPT ![p] = <<>>]
    /\ UNCHANGED <<langvars, mgrvars, scenario, full, ctlq, eventset, chan, dests, onramps, closed, sigq, nins, evq, budget>>

\* The arm ends and the loop goes back to `for req in rx`.
Finish(p) ==
    /\ Done(p)
    /\ cur' = [cur EXCEPT ![p] = NoCur]
    /\ log' = [log EXCEPT ![p] = <<>>]
    /\ UNCHANGED <<langvars, mgrvars, scenario, full, ctlq, eventset, chan, dests, onramps, closed, sigq, nins, evq, budget>>

\* ------------------------------------------------------------- tick task
\* rx, the receiver of pipeline p's channel, exists: from bounded() on in
\* the frame of start_pipeline, then in the closure of the actor thread.
HasReceiver(p) == actor[p] \in {"starting", "running"}

\* Mutant of TickSend: the task sends a signal of another kind.
TickSendOther(p) ==
    /\ tick[p] = "running"
    /\ HasReceiver(p)
    /\ ChanSend(p, SignalMsg("Control"))
    /\ UNCHANGED <<langvars, mgrvars, scenario, full, ctlq, eventset, dests, onramps, closed, sigq, nins, evq, cur, log, budget>>

\* tick_tx.send(Msg::Signal(e)) with e of kind Tick and data (null, {}),
\* once per period, while the channel has its receiver.
TickSend(p) ==
    /\ tick[p] = "running"
    /\ HasReceiver(p)
    /\ ChanSend(p, SignalMsg("Tick"))
    /\ UNCHANGED <<langvars, mgrvars, scenario, full, ctlq, eventset, dests, onramps, closed, sigq, nins, evq, cur, log, budget>>

\* The send fails (the receiver is gone): the while loop and the task end.
TickFail(p) ==
    /\ tick[p] = "running"
    /\ ~HasReceiver(p)
    /\ tick' = [tick EXCEPT ![p] = "over"]
    /\ UNCHANGED <<langvars, scenario, full, ctlq, eventset, chan, dests, onramps, closed, sigq, nins, evq, cur,
                   log, budget, mchan, mstate, actor, reply, outcome>>

\* `for req in rx` is over, and with it the actor thread: every Sender of
\* the channel is dropped and the channel is drained. tick_tx is one of the
\* Senders for as long as the tick task runs.
LoopOver(p) ==
    /\ actor[p] = "running"
    /\ tick[p] # "running"
    /\ chan[p] = <<>>
    /\ Idle(p)

\* --------------------------------------------------------------- manager
CreateMsg(p, config) == [type |-> "Create", id |-> p, config |-> config]
StopMsg == [type |-> "Stop"]

\* PipelineArtefact::to_executable_graph: Err for a config that does not
\* build.
Builds(config) == config # "broken"

\* Mutant of StartPipeline: the tick task is spawned before the graph is
\* built.
StartPipelineTickFirst(p, config) ==
    /\ tick' = [tick EXCEPT ![p] = "running"]
    /\ actor' = [actor EXCEPT ![p] = IF Builds(config) THEN "starting" ELSE "none"]
    /\ outcome' = [outcome EXCEPT ![p] = IF Builds(config) THEN @ ELSE "err"]

\* Manager::start_pipeline for Create { id: p, config }, up to the spawn
\* of the actor thread: the channel is made, the graph is built (? returns
\* its error), then the tick task is spawned and runs from then on, while
\* rx is still in the frame of start_pipeline.
StartPipeline(p, config) ==
    IF ~Builds(config)
    THEN /\ outcome' = [outcome EXCEPT ![p] = "err"]
         /\ UNCHANGED <<actor, tick>>
    ELSE /\ tick' = [tick EXCEPT ![p] = "running"]
         /\ actor' = [actor EXCEPT ![p] = "starting"]
         /\ UNCHANGED outcome

\* The manager task is inside start_pipeline.
Starting == \E p \in Pipelines : actor[p] = "starting"

\* The manager task is inside r.send(..).await: start_pipeline has returned
\* and its result is not yet in the requester's channel.
Replying == \E p \in Pipelines : outcome[p] # "none"

\* The channel r of the Create for pipeline p, as an element of full.
ReplyChan(p) == IF p = "p1" THEN "r1" ELSE "r2"

\* Ok(ManagerMsg::Create(r, create)): self.start_pipeline(create), up to
\* the spawn of the actor thread, or to the error of a graph that does not
\* build. The loop takes its next message only after the reply is sent.
ManagerCreate ==
    /\ mstate = "running"
    /\ ~Starting
    /\ ~Replying
    /\ mchan # <<>>
    /\ Head(mchan).type = "Create"
    /\ mchan' = Tail(mchan)
    /\ StartPipeline(Head(mchan).id, Head(mchan).config)
    /\ UNCHANGED <<langvars, scenario, full, ctlq, eventset, chan, dests, onramps, closed, sigq, nins, evq, cur,
                   log, budget, mstate, reply>>

\* The rest of start_pipeline: thread::Builder::spawn of the actor thread
\* (? returns its error, and the closure is dropped with rx), Ok(Addr)
\* after that. The thread runs from the spawn on, whether or not the reply
\* is sent.
ManagerSpawn(p) ==
    /\ mstate = "running"
    /\ actor[p] = "starting"
    /\ \E spawned \in BOOLEAN :
        /\ actor' = [actor EXCEPT ![p] = IF spawned THEN "running" ELSE "nospawn"]
        /\ outcome' = [outcome EXCEPT ![p] = IF spawned THEN "addr" ELSE "err"]
    /\ UNCHANGED <<langvars, scenario, full, ctlq, eventset, chan, dests, onramps, closed, sigq, nins, evq, cur,
                   log, budget, mchan, mstate, tick, reply>>

\* r.send(..).await: the result of start_pipeline goes into the requester's
\* channel, once that channel has room.
ManagerReply(p) ==
    /\ mstate = "running"
    /\ outcome[p] # "none"
    /\ ReplyChan(p) \notin full
    /\ reply' = [reply EXCEPT ![p] = outcome[p]]
    /\ outcome' = [outcome EXCEPT ![p] = "none"]
    /\ UNCHANGED <<langvars, scenario, full, ctlq, eventset, chan, dests, onramps, closed, sigq, nins, evq, cur,
                   log, budget, mchan, mstate, actor, tick>>

\* Ok(ManagerMsg::Stop): break. The pipelines are not told.
ManagerStop ==
    /\ mstate = "running"
    /\ ~Starting
    /\ ~Replying
    /\ mchan # <<>>
    /\ Head(mchan).type = "Stop"
    /\ mchan' = Tail(mchan)
    /\ mstate' = "stopped"
    /\ UNCHANGED <<langvars, scenario, full, ctlq, eventset, chan, dests, onramps, closed, sigq, nins, evq, cur,
                   log, budget, actor, tick, reply, outcome>>

\* ------------------------------------------------------ the outside world
\* What sources, sinks and the control plane send into pipeline p's channel
\* in each scenario.
OfframpIds == {URL("o1", "in"), URL("o2", NoPort)}

EnvMsgs(p) ==
    CASE scenario = "route" /\ p = "p1" ->
            {EventMsg("in", "e1")}
                \cup {ConnectOfframpMsg("out", id, id.inst) : id \in OfframpIds}
                \cup {ConnectOfframpMsg("err", URL("o1", "in"), "o1")}
                \cup {ConnectPipelineMsg("out", URL("p2", "in"), "p2")}
      [] scenario = "signal" /\ p = "p1" ->
            {SignalMsg("Control"),
             ConnectOfframpMsg("out", URL("o1", "in"), "o1")}
                \cup {ConnectPipelineMsg("out", URL(q, "in"), q) :
                        q \in Pipelines}
      [] scenario = "insight" /\ p = "p1" ->
            {InsightMsg}
                \cup {ConnectOnrampMsg(URL(x, NoPort), x) : x \in Sources}
                \cup {DisconnectInputMsg(URL(x, NoPort)) : x \in Sources}
      [] scenario = "cycle" ->
            {EventMsg("in", "e1")}
                \cup {ConnectPipelineMsg("out", URL(q, "in"), q) :
                        q \in Pipelines}
                \cup {DisconnectOutputMsg("out", URL(q, "in")) :
                        q \in Pipelines}
      [] scenario = "chain" /\ p = "p1" ->
            {ConnectOnrampMsg(URL("s1", NoPort), "s1"),
             ConnectPipelineMsg("out", URL("p2", "in"), "p2")}
      [] scenario = "chain" /\ p = "p2" -> {InsightMsg}
      [] scenario = "flush" /\ p = "p1" ->
            {SignalMsg("Control"),
             ConnectOnrampMsg(URL("s1", NoPort), "s1"),
             ConnectOfframpMsg("out", URL("o1", "in"), "o1")}
      [] scenario = "create" /\ p = "p1" -> {EventMsg("in", "e1")}
      [] scenario = "order" /\ p = "p1" ->
            {EventMsg("in", "e1"), EventMsg("in", "e2"),
             SignalMsg("Control"), InsightMsg,
             ConnectOfframpMsg("err", URL("o1", "in"), "o1"),
             DisconnectInputMsg(URL("s1", NoPort))}
      [] scenario = "partial" /\ p = "p1" ->
            {EventMsg("in", "e1"), EventMsg("in", "e2"),
             ConnectOfframpMsg("out", URL("o1", "in"), "o1")}
      [] OTHER -> {}

\* The world sends into the channel of a pipeline whose Addr it was given.
EnvSend(p) ==
    /\ reply[p] = "addr"
    /\ budget < MaxEnv
    /\ \E m \in EnvMsgs(p) : ChanSend(p, m)
    /\ budget' = budget + 1
    /\ UNCHANGED <<langvars, mgrvars, scenario, full, ctlq, eventset, dests, onramps, closed, sigq, nins, evq, cur, log>>

\* What the world sends the manager: one Create per pipeline, and Stop. The
\* world keeps its Sender, so the manager's recv never fails.
MgrMsgs ==
    IF scenario = "create"
    THEN {CreateMsg(p, config) : p \in Pipelines, config \in {"pass", "broken"}}
            \cup {StopMsg}
    ELSE {}

Requested(p) ==
    \/ reply[p] # "none"
    \/ outcome[p] # "none"
    \/ actor[p] = "starting"
    \/ \E i \in DOMAIN mchan : mchan[i].type = "Create" /\ mchan[i].id = p

EnvSendManager ==
    /\ budget < MaxEnv
    /\ Len(mchan) < MgrQSize
    /\ \E m \in MgrMsgs :
        /\ m.type = "Create" => ~Requested(m.id)
        /\ mchan' = Append(mchan, m)
    /\ budget' = budget + 1
    /\ UNCHANGED <<langvars, scenario, full, ctlq, eventset, chan, dests, onramps, closed, sigq, nins, evq, cur,
                   log, mstate, actor, tick, reply, outcome>>

\* The offramps whose thread may end in the scenario.
Stoppable == IF scenario \in {"route", "signal"} THEN {"o1"} ELSE {}

\* An offramp's thread ends: its channel is closed from then on.
OfframpStop(o) ==
    /\ o \in Stoppable
    /\ budget < MaxEnv
    /\ o \notin closed
    /\ closed' = closed \cup {o}
    /\ budget' = budget + 1
    /\ UNCHANGED <<langvars, mgrvars, scenario, full, ctlq, eventset, chan, dests, onramps, sigq, nins, evq, cur, log>>

\* The sources whose channel may fill up in the scenario.
Stallable ==
    CASE scenario = "insight" -> {"s2"}
      [] scenario = "flush" -> {"s1"}
      [] OTHER -> {}

\* A source does not take its messages, and the next send to it finds its
\* channel full.
SourceFills(x) ==
    /\ x \in Stallable
    /\ x \notin full
    /\ \E p \in Pipelines : ctlq[p] # <<>> /\ Head(ctlq[p]).addr = x
    /\ full' = full \cup {x}
    /\ UNCHANGED <<langvars, mgrvars, scenario, ctlq, eventset, chan, dests, onramps, closed, sigq, nins, evq, cur, log, budget>>

\* The source takes a message: its channel has room again.
SourceTakes(x) ==
    /\ x \in Sources
    /\ x \in full
    /\ full' = full \ {x}
    /\ UNCHANGED <<langvars, mgrvars, scenario, ctlq, eventset, chan, dests, onramps, closed, sigq, nins, evq, cur, log, budget>>

\* The offramps whose on_event may take its time in the scenario.
Slow == IF scenario \in {"route", "signal"} THEN {"o1"} ELSE {}

\* Actor p's next send goes into the channel of offramp o.
SendsTo(p, o) ==
    IF sigq[p] # <<>>
    THEN Head(sigq[p]).kind = "Offramp" /\ Head(sigq[p]).addr = o
    ELSE /\ nins[p] = 0 /\ ctlq[p] = <<>> /\ evq[p] # <<>>
         /\ Head(evq[p]).kind = "Offramp" /\ Head(evq[p]).addr = o
         /\ InstancePort(Head(evq[p]).id) # NoPort

\* The offramp's thread is inside on_event and its channel holds qsize
\* messages: the next send to it finds the channel full.
OfframpFills(o) ==
    /\ o \in Slow
    /\ o \notin full
    /\ o \notin closed
    /\ \E p \in Pipelines : SendsTo(p, o)
    /\ full' = full \cup {o}
    /\ UNCHANGED <<langvars, mgrvars, scenario, ctlq, eventset, chan, dests, onramps, closed, sigq, nins, evq, cur, log, budget>>

\* on_event has returned and the thread takes the next message of its
\* channel, which has room again.
OfframpTakes(o) ==
    /\ o \in Offramps
    /\ o \in full
    /\ full' = full \ {o}
    /\ UNCHANGED <<langvars, mgrvars, scenario, ctlq, eventset, chan, dests, onramps, closed, sigq, nins, evq, cur, log, budget>>

\* The requester has not taken what is in the channel it gave with Create:
\* the reply finds that channel full.
ReplyFills(p) ==
    /\ outcome[p] # "none"
    /\ ReplyChan(p) \notin full
    /\ full' = full \cup {ReplyChan(p)}
    /\ UNCHANGED <<langvars, mgrvars, scenario, ctlq, eventset, chan, dests, onramps, closed, sigq, nins, evq, cur, log, budget>>

\* The requester takes a message of that channel.
ReplyTakes(p) ==
    /\ ReplyChan(p) \in full
    /\ full' = full \ {ReplyChan(p)}
    /\ UNCHANGED <<langvars, mgrvars, scenario, ctlq, eventset, chan, dests, onramps, closed, sigq, nins, evq, cur, log, budget>>

Next ==
    \/ \E p \in Pipelines : RecvEvent(p)
    \/ \E p \in Pipelines : RecvSignal(p)
    \/ \E p \in Pipelines : RecvInsight(p)
    \/ \E p \in Pipelines : RecvConnectOfframp(p)
    \/ \E p \in Pipelines : RecvConnectPipeline(p)
    \/ \E p \in Pipelines : RecvConnectOnramp(p)
    \/ \E p \in Pipelines : RecvDisconnectOutput(p)
    \/ \E p \in Pipelines : RecvDisconnectInput(p)
    \/ \E p \in Pipelines : SignalStep(p)
    \/ \E p \in Pipelines : InsightStep(p)
    \/ \E p \in Pipelines : CtlStep(p)
    \/ \E p \in Pipelines : EventStep(p)
    \/ \E p \in Pipelines : Finish(p)
    \/ \E p \in Pipelines : TickSend(p)
    \/ \E p \in Pipelines : TickFail(p)
    \/ ManagerCreate
    \/ \E p \in Pipelines : ManagerSpawn(p)
    \/ \E p \in Pipelines : ManagerReply(p)
    \/ ManagerStop
    \/ EnvSendManager
    \/ \E p \in Pipelines : EnvSend(p)
    \/ \E o \in Offramps : OfframpStop(o)
    \/ \E x \in Sources : SourceFills(x)
    \/ \E x \in Sources : SourceTakes(x)
    \/ \E o \in Offramps : OfframpFills(o)
    \/ \E o \in Offramps : OfframpTakes(o)
    \/ \E p \in Pipelines : ReplyFills(p)
    \/ \E p \in Pipelines : ReplyTakes(p)

Spec == Init /\ [][Next]_vars

\* ------------------------------------------- routing tables as inputs
\* The routing tables Connect messages can have built: for some ports, a
\* list of one to MaxList entries.
TableEntries ==
    {OfframpEntry(URL(o, "in"), o) : o \in Offramps}
        \cup {PipelineEntry(URL("p2", "in"), "p2")}

TableLists == SeqsUpTo(TableEntries, MaxList) \ {<<>>}

Tables ==
    UNION {[ports -> TableLists] : ports \in SUBSET Ports}

TableMsgs ==
    {ConnectOfframpMsg(port, URL(o, "in"), o) : port \in Ports, o \in Offramps}
        \cup {ConnectPipelineMsg(port, URL("p2", "in"), "p2") : port \in Ports}
        \cup {DisconnectOutputMsg(port, e.id) : port \in Ports, e \in TableEntries}

\* Pipeline p1 with any such routing table, with or without a registered
\* source, and a Connect or DisconnectOutput message in its channel.
TableInit ==
    /\ scenario = "table"
    /\ mchan = <<>>
    /\ mstate = "running"
    /\ actor = [p \in Pipelines |-> "running"]
    /\ tick = [p \in Pipelines |-> "running"]
    /\ reply = [p \in Pipelines |-> "addr"]
    /\ outcome = [p \in Pipelines |-> "none"]
    /\ \E m \in TableMsgs : chan = [p \in Pipelines |-> IF p = "p1" THEN <<m>> ELSE <<>>]
    /\ \E d \in Tables : dests = [p \in Pipelines |-> IF p = "p1" THEN d ELSE EmptyMap]
    /\ \E srcs \in {EmptyMap, Put(EmptyMap, URL("s1", NoPort), "s1")} :
        onramps = [p \in Pipelines |-> IF p = "p1" THEN srcs ELSE EmptyMap]
    /\ closed = {}
    /\ sigq = [p \in Pipelines |-> <<>>]
    /\ nins = [p \in Pipelines |-> 0]
    /\ evq = [p \in Pipelines |-> <<>>]
    /\ eventset = [p \in Pipelines |-> <<>>]
    /\ full = {}
    /\ ctlq = [p \in Pipelines |-> <<>>]
    /\ cur = [p \in Pipelines |-> NoCur]
    /\ log = [p \in Pipelines |-> <<>>]
    /\ budget = 0
    /\ LangNew

TableNext ==
    \/ RecvConnectOfframp("p1")
    \/ RecvConnectPipeline("p1")
    \/ RecvDisconnectOutput("p1")
    \/ Finish("p1")

TableSpec == TableInit /\ [][TableNext]_vars

\* Two pipelines whose channels hold OrderQSize messages: source s1 is
\* registered at p1, and p1's port "out" is connected to p2. A sender gives
\* p1 messages of every kind.
OrderInit ==
    /\ scenario = "order"
    /\ mchan = <<>>
    /\ mstate = "running"
    /\ actor = [p \in Pipelines |-> "running"]
    /\ tick = [p \in Pipelines |-> "running"]
    /\ reply = [p \in Pipelines |-> "addr"]
    /\ outcome = [p \in Pipelines |-> "none"]
    /\ chan = [p \in Pipelines |-> <<>>]
    /\ dests = [p \in Pipelines |->
                  IF p = "p1"
                  THEN Connect(EmptyMap, ConnectPipelineMsg("out", URL("p2", "in"), "p2"))
                  ELSE EmptyMap]
    /\ onramps = [p \in Pipelines |->
                    IF p = "p1" THEN Put(EmptyMap, URL("s1", NoPort), "s1")
                    ELSE EmptyMap]
    /\ closed = {}
    /\ sigq = [p \in Pipelines |-> <<>>]
    /\ nins = [p \in Pipelines |-> 0]
    /\ evq = [p \in Pipelines |-> <<>>]
    /\ eventset = [p \in Pipelines |-> <<>>]
    /\ full = {}
    /\ ctlq = [p \in Pipelines |-> <<>>]
    /\ cur = [p \in Pipelines |-> NoCur]
    /\ log = [p \in Pipelines |-> <<>>]
    /\ budget = 0
    /\ LangNew

OrderNext ==
    \/ \E p \in Pipelines : RecvEvent(p)
    \/ \E p \in Pipelines : RecvSignal(p)
    \/ \E p \in Pipelines : RecvInsight(p)
    \/ \E p \in Pipelines : RecvConnectOfframp(p)
    \/ \E p \in Pipelines : RecvDisconnectInput(p)
    \/ \E p \in Pipelines : SignalStep(p)
    \/ \E p \in Pipelines : CtlStep(p)
    \/ \E p \in Pipelines : EventStep(p)
    \/ \E p \in Pipelines : Finish(p)
    \/ \E p \in Pipelines : TickSend(p)
    \/ \E p \in Pipelines : EnvSend(p)

OrderSpec == OrderInit /\ [][OrderNext]_vars

\* One step of pipeline p's actor thread.
ActorStep(p) ==
    \/ RecvEvent(p) \/ RecvSignal(p) \/ RecvInsight(p)
    \/ RecvConnectOfframp(p) \/ RecvConnectPipeline(p) \/ RecvConnectOnramp(p)
    \/ RecvDisconnectOutput(p) \/ RecvDisconnectInput(p)
    \/ SignalStep(p) \/ InsightStep(p) \/ CtlStep(p) \/ EventStep(p) \/ Finish(p)

\* Every spawned thread and task is scheduled: an actor thread, a tick task
\* or the manager task that can take a step eventually takes one. Nothing
\* is assumed of the outside world.
FairSpec ==
    /\ Spec
    /\ \A p \in Pipelines : WF_vars(ActorStep(p))
    /\ \A p \in Pipelines : WF_vars(TickSend(p) \/ TickFail(p))
    /\ WF_vars(\/ ManagerCreate
               \/ ManagerStop
               \/ \E p \in Pipelines : ManagerSpawn(p) \/ ManagerReply(p))

\* ------------------------------------------------- script compiler Helper
\* Deepest nesting of shadow variables explored.
MaxShadow == 2
\* Most entries of a map a caller hands to swap or swap2.
MaxHeld == 2

\* The identifiers of a script.
Idents == {"a", "b"}

Digits == <<"0", "1", "2", "3", "4", "5", "6", "7", "8", "9">>

\* format!(" __SHADOW {}__ ", id), for the one-digit ids the bounds reach.
ShadowName(id) == " __SHADOW " \o Digits[id + 1] \o "__ "

\* Mutant of FindShadowVar: the first (outermost) match wins.
FindShadowVarFirst(sv, id) ==
    LET hits == {i \in DOMAIN sv : sv[i] = id}
    IN  IF hits = {} THEN "" ELSE ShadowName((CHOOSE i \in hits : \A j \in hits : i <= j) - 1)

\* find_shadow_var: the shadow name of the last position holding id, ""
\* for None. Positions count from zero in the code.
FindShadowVar(sv, id) ==
    LET hits == {i \in DOMAIN sv : sv[i] = id}
    IN  IF hits = {} THEN "" ELSE ShadowName((CHOOSE i \in hits : \A j \in hits : j <= i) - 1)

\* The name var_id looks up in locals.
Resolved(sv, id) ==
    IF FindShadowVar(sv, id) # "" THEN FindShadowVar(sv, id) ELSE id

\* Mutant of VarIdIdx: a new name gets the length after the insert.
VarIdIdxAfter(l, sv, id) ==
    IF Resolved(sv, id) \in DOMAIN l
    THEN l[Resolved(sv, id)]
    ELSE Cardinality(DOMAIN l) + 1

\* var_id's result: the index of the resolved name, or locals.len() before
\* the insert of a new one.
VarIdIdx(l, sv, id) ==
    IF Resolved(sv, id) \in DOMAIN l
    THEN l[Resolved(sv, id)]
    ELSE Cardinality(DOMAIN l)

\* locals after var_id.
VarIdLocals(l, sv, id) ==
    IF Resolved(sv, id) \in DOMAIN l
    THEN l
    ELSE Put(l, Resolved(sv, id), VarIdIdx(l, sv, id))

Returned(op, id, idx) == [op |-> op, id |-> id, idx |-> idx]

\* helper.var_id(id)
VarId(id) ==
    /\ locals' = VarIdLocals(locals, shadowed_vars, id)
    /\ handed' = handed \cup {<<Resolved(shadowed_vars, id), VarIdIdx(locals, shadowed_vars, id)>>}
    /\ ret' = Returned("var_id", id, VarIdIdx(locals, shadowed_vars, id))
    /\ UNCHANGED <<shadowed_vars, slots, outer>>
    /\ UNCHANGED <<regvars, notHelper>>

\* helper.reserve_shadow(): var_id of the shadow name of the current depth.
ReserveShadow ==
    /\ Len(shadowed_vars) <= MaxShadow
    /\ VarId(ShadowName(Len(shadowed_vars)))

\* helper.reserve_2_shadow(): var_id of the shadow names of the current
\* depth and of the next one.
Reserve2Shadow ==
    LET n1 == ShadowName(Len(shadowed_vars))
        n2 == ShadowName(Len(shadowed_vars) + 1)
        l1 == VarIdLocals(locals, shadowed_vars, n1)
    IN  /\ Len(shadowed_vars) < MaxShadow
        /\ locals' = VarIdLocals(l1, shadowed_vars, n2)
        /\ handed' = handed \cup
               {<<Resolved(shadowed_vars, n1), VarIdIdx(locals, shadowed_vars, n1)>>,
                <<Resolved(shadowed_vars, n2), VarIdIdx(l1, shadowed_vars, n2)>>}
        /\ ret' = Returned("reserve_2_shadow", n2, VarIdIdx(l1, shadowed_vars, n2))
        /\ UNCHANGED <<shadowed_vars, slots, outer>>
        /\ UNCHANGED <<regvars, notHelper>>

\* helper.register_shadow_var(id): reserve_shadow, then push.
RegisterShadowVar(id) ==
    LET n == ShadowName(Len(shadowed_vars))
        r == VarIdIdx(locals, shadowed_vars, n)
    IN  /\ Len(shadowed_vars) < MaxShadow
        /\ locals' = VarIdLocals(locals, shadowed_vars, n)
        /\ handed' = handed \cup {<<Resolved(shadowed_vars, n), r>>}
        /\ shadowed_vars' = Append(shadowed_vars, id)
        /\ slots' = Append(slots, r)
        /\ outer' = Append(outer,
               IF Resolved(shadowed_vars, id) \in DOMAIN locals
               THEN locals[Resolved(shadowed_vars, id)]
               ELSE NoSlot)
        /\ ret' = Returned("register_shadow_var", id, r)
        /\ UNCHANGED <<regvars, notHelper>>

\* helper.end_shadow_var(): pop.
EndShadowVar ==
    /\ shadowed_vars # <<>>
    /\ shadowed_vars' = SubSeq(shadowed_vars, 1, Len(shadowed_vars) - 1)
    /\ slots' = SubSeq(slots, 1, Len(slots) - 1)
    /\ outer' = SubSeq(outer, 1, Len(outer) - 1)
    /\ ret' = Returned("end_shadow_var", shadowed_vars[Len(shadowed_vars)], NoSlot)
    /\ UNCHANGED <<locals, handed>>
    /\ UNCHANGED <<regvars, notHelper>>

\* The maps a caller hands to swap and swap2: built by var_id, so dense
\* and zero-based, over the names of the script and the outermost shadow
\* name, with at most MaxHeld entries.
CallerMaps ==
    LET names == Idents \cup {ShadowName(0)}
    IN  UNION {{[n \in {o[i] : i \in DOMAIN o} |->
                    (CHOOSE i \in DOMAIN o : o[i] = n) - 1] : o \in Orders(S)} :
               S \in {T \in SUBSET names : Cardinality(T) <= MaxHeld}}

\* mem::swap(&mut self.locals, locals): the Helper goes on with the
\* caller's map m, and the caller holds the Helper's from then on. The
\* shadowed variables stay as they are; what was recorded about the map
\* that left is dropped. The aggregates and the const names that change
\* hands as well are not part of this state.
SwapLocals(op, m) ==
    /\ locals' = m
    /\ handed' = {<<n, m[n]>> : n \in DOMAIN m}
    /\ slots' = [i \in DOMAIN slots |-> NoSlot]
    /\ outer' = [i \in DOMAIN outer |-> NoSlot]
    /\ ret' = Returned(op, "", NoSlot)
    /\ UNCHANGED shadowed_vars
    /\ UNCHANGED <<regvars, notHelper>>

\* helper.swap(aggregates, consts, locals)
Swap(m) == SwapLocals("swap", m)

\* helper.swap2(aggregates, locals)
Swap2(m) == SwapLocals("swap2", m)

\* No pipeline and no manager: the script compiler and the preprocessors
\* run on their own.
NoPipelines ==
    /\ scenario = "none"
    /\ mchan = <<>>
    /\ mstate = "running"
    /\ actor = [p \in Pipelines |-> "none"]
    /\ tick = [p \in Pipelines |-> "none"]
    /\ reply = [p \in Pipelines |-> "none"]
    /\ outcome = [p \in Pipelines |-> "none"]
    /\ chan = [p \in Pipelines |-> <<>>]
    /\ dests = [p \in Pipelines |-> EmptyMap]
    /\ onramps = [p \in Pipelines |-> EmptyMap]
    /\ closed = {}
    /\ sigq = [p \in Pipelines |-> <<>>]
    /\ nins = [p \in Pipelines |-> 0]
    /\ evq = [p \in Pipelines |-> <<>>]
    /\ eventset = [p \in Pipelines |-> <<>>]
    /\ full = {}
    /\ ctlq = [p \in Pipelines |-> <<>>]
    /\ cur = [p \in Pipelines |-> NoCur]
    /\ log = [p \in Pipelines |-> <<>>]
    /\ budget = 0

\* A fresh Helper, then any calls the compiler makes while it walks a
\* script: shadows are ended in the reverse order they were registered.
HelperInit ==
    /\ NoPipelines
    /\ LangNew

HelperNext ==
    \/ \E id \in Idents : VarId(id)
    \/ \E id \in Idents : RegisterShadowVar(id)
    \/ EndShadowVar
    \/ ReserveShadow
    \/ Reserve2Shadow
    \/ \E m \in CallerMaps : Swap(m)
    \/ \E m \in CallerMaps : Swap2(m)

HelperSpec == HelperInit /\ [][HelperNext]_vars

\* ------------------------------------------- syslog frame preprocessor
\* Most bytes a preprocessor is given to hold together with the chunk
\* it is called with, and so the longest chunk.
MaxBuf == 4

\* The byte 0xFF, which no UTF-8 text holds.
NotUtf8 == "0xFF"

\* The bytes of a chunk: two digits, the space, a letter and a byte that
\* is not UTF-8.
Bytes == {"0", "2", " ", "a", NotUtf8}

Chunks == SeqsUpTo(Bytes, MaxBuf)

ParseErr == -1

RECURSIVE DigitsValue(_)
\* The value of a string of decimal digits.
DigitsValue(s) ==
    IF s = <<>>
    THEN 0
    ELSE 10 * DigitsValue(SubSeq(s, 1, Len(s) - 1))
            + (CHOOSE d \in 0 .. 9 : Digits[d + 1] = s[Len(s)])

\* str::parse::<usize>: an optional '+', then one or more decimal digits;
\* ParseErr for anything else. The values the bounds reach fit a usize.
ParseUsize(s) ==
    LET digits == IF s # <<>> /\ s[1] = "+" THEN Tail(s) ELSE s
    IN  IF digits = <<>> \/ \E i \in DOMAIN digits : \A d \in 0 .. 9 : Digits[d + 1] # digits[i]
        THEN ParseErr
        ELSE DigitsValue(digits)

\* std::str::from_utf8(s) is Ok: of the bytes here all but 0xFF are ASCII.
FromUtf8(s) == \A i \in DOMAIN s : s[i] # NotUtf8

\* source.iter().position(|char| char == &b' '), from zero; -1 for None.
FirstSpacePos(source) ==
    IF \E i \in DOMAIN source : source[i] = " "
    THEN (CHOOSE i \in DOMAIN source :
              /\ source[i] = " "
              /\ \A j \in 1 .. (i - 1) : source[j] # " ") - 1
    ELSE -1

\* source[from..to], with the code's zero-based, end-exclusive bounds.
Slice(s, from, to) == SubSeq(s, from + 1, to)

\* What a call of parse leaves: self.state, self.frame_buffer, acc and the
\* Result; and how it went: the length of source at the start of each
\* iteration of the header loop, and the depth of the recursion.
Parsed(st, buf, acc, out) ==
    [state |-> st, buf |-> buf, acc |-> acc, out |-> out,
     sources |-> <<>>, depth |-> 0]

RECURSIVE ExpectFrameSizeLoop(_, _, _, _, _)
\* The loop of the ExpectFrameSize arm of parse. It returns Err from three
\* places: from_utf8 of frame_buffer and from_utf8 of the bytes before the
\* space, both before frame_buffer is emptied, and parse::<usize>, after.
\* An ExpectBytes of a negative n stands for the usize 2^64 + n the
\* subtraction wraps to in a build without overflow checks; with them
\* (checks) it panics.
ExpectFrameSizeLoop(chunk, source, buf, acc, checks) ==
    LET first_space_pos == FirstSpacePos(source)
        size_str == buf \o Slice(source, 0, first_space_pos)
        frame_size == ParseUsize(size_str)
        frame_start == first_space_pos + 1
        frame_end == frame_start + frame_size
        rest == Slice(chunk, first_space_pos + 1, Len(chunk))
        iteration ==
            IF first_space_pos = -1
            THEN Parsed(ExpectFrameSize, buf \o source, acc, "ok")
            ELSE IF ~FromUtf8(buf) \/ ~FromUtf8(Slice(source, 0, first_space_pos))
            THEN Parsed(ExpectFrameSize, buf, acc, "err")
            ELSE IF frame_size = ParseErr
            THEN Parsed(ExpectFrameSize, <<>>, acc, "err")
            ELSE IF Len(source) - frame_start >= frame_size
            THEN ExpectFrameSizeLoop(chunk, Slice(source, frame_end, Len(source)), <<>>,
                                     Append(acc, Slice(source, frame_start, frame_end)), checks)
            ELSE IF frame_size - Len(rest) < 0 /\ checks
            THEN Parsed(Panicked, rest, acc, "panic")
            ELSE Parsed(ExpectBytes(frame_size - Len(rest)), rest, acc, "ok")
    IN  [iteration EXCEPT !.sources = <<Len(source)>> \o @]

\* Mutant of Parse: the ExpectBytes arm calls parse before it sets the
\* state back to ExpectFrameSize, so that call takes the ExpectBytes arm
\* once more, on an empty buffer.
ParseKeepsState(st, buf, chunk, checks) ==
    IF st.tag = "ExpectFrameSize"
    THEN ExpectFrameSizeLoop(chunk, chunk, buf, <<>>, checks)
    ELSE IF st.bytes >= 0 /\ Len(buf) + Len(chunk) >= st.bytes
    THEN LET take_bytes == st.bytes - Len(buf)
             frame == buf \o Slice(chunk, 0, take_bytes)
             rest == Slice(chunk, take_bytes, Len(chunk))
             after == Slice(rest, st.bytes, Len(rest))
             last == ExpectFrameSizeLoop(after, after, <<>>, <<>>, checks)
             more == IF Len(rest) >= st.bytes
                     THEN [last EXCEPT !.acc = <<Slice(rest, 0, st.bytes)>> \o @,
                                       !.depth = @ + 1]
                     ELSE Parsed(ExpectBytes(st.bytes - Len(rest)), rest, <<>>, "ok")
         IN  IF take_bytes < 0
             THEN Parsed(Panicked, buf, <<>>, "panic")
             ELSE [more EXCEPT !.acc = <<frame>> \o @, !.depth = @ + 1]
    ELSE Parsed(ExpectBytes(st.bytes - Len(chunk)), buf \o chunk, <<>>, "ok")

RECURSIVE Parse(_, _, _, _)
\* SyslogTLS::parse(data, acc): what it adds to acc. In the ExpectBytes arm
\* a take_bytes below zero panics in both builds: on the subtraction with
\* overflow checks, on the slice data[..take_bytes] without. The arm pushes
\* the frame, sets the state to ExpectFrameSize and calls parse again on
\* the rest of the chunk.
Parse(st, buf, chunk, checks) ==
    IF st.tag = "ExpectFrameSize"
    THEN ExpectFrameSizeLoop(chunk, chunk, buf, <<>>, checks)
    ELSE IF st.bytes >= 0 /\ Len(buf) + Len(chunk) >= st.bytes
    THEN LET take_bytes == st.bytes - Len(buf)
             frame == buf \o Slice(chunk, 0, take_bytes)
             more == Parse(ExpectFrameSize, <<>>,
                           Slice(chunk, take_bytes, Len(chunk)), checks)
         IN  IF take_bytes < 0
             THEN Parsed(Panicked, buf, <<>>, "panic")
             ELSE [more EXCEPT !.acc = <<frame>> \o @, !.depth = @ + 1]
    ELSE Parsed(ExpectBytes(st.bytes - Len(chunk)), buf \o chunk, <<>>, "ok")

\* preprocessor.process(&mut ingest_ns, chunk), in a build with overflow
\* checks or in one without.
Process(chunk) ==
    \E checks \in BOOLEAN :
        LET p == Parse(state, frame_buffer, chunk, checks)
        IN  /\ state.tag # "Panicked"
            /\ Len(frame_buffer) + Len(chunk) <= MaxBuf
            /\ state' = p.state
            /\ frame_buffer' = p.buf
            /\ before' = [state |-> state, frame_buffer |-> frame_buffer]
            /\ data' = chunk
            /\ returned' = IF p.out = "ok" THEN Ok(p.acc)
                           ELSE IF p.out = "err" THEN Err ELSE Panic
            /\ steps' = [sources |-> p.sources, depth |-> p.depth]
            /\ UNCHANGED notSyslog

\* A fresh preprocessor, then any chunks.
SyslogInit ==
    /\ NoPipelines
    /\ LangNew

SyslogNext == \E chunk \in Chunks : Process(chunk) /\ UNCHANGED streamvars

SyslogSpec == SyslogInit /\ [][SyslogNext]_vars

\* --------------------------------------------- octet-counted streams
\* The longest frame of a stream, and the most frames a stream has.
MaxFrame == 2

\* The bytes of a frame's content.
FrameBytes == {"a", " "}

\* RFC 6587 octet counting: the length in decimal, a space, the content.
Encode(frame) == <<Digits[Len(frame) + 1], " ">> \o frame

\* Streams of one to MaxFrame frames of one to MaxFrame bytes each.
Streams == SeqsUpTo(SeqsUpTo(FrameBytes, MaxFrame) \ {<<>>}, MaxFrame) \ {<<>>}

\* A fresh preprocessor and a well-formed stream, nothing of it read yet.
StreamInit ==
    /\ NoPipelines
    /\ HelperNew
    /\ SyslogNew
    /\ NoFold
    /\ NoRun
    /\ stream \in Streams
    /\ unread = Flatten([i \in DOMAIN stream |-> Encode(stream[i])])
    /\ emitted = <<>>

\* The transport hands the next n bytes of the stream to process; the
\* caller collects the frames returned.
Feed(n) ==
    /\ n <= Len(unread)
    /\ Process(SubSeq(unread, 1, n))
    /\ unread' = SubSeq(unread, n + 1, Len(unread))
    /\ emitted' = emitted \o returned'.frames
    /\ UNCHANGED stream

StreamNext == \E n \in 1 .. MaxBuf : Feed(n)

StreamSpec == StreamInit /\ [][StreamNext]_vars

\* ---------------------------------------------- parse on any parser state
\* The bytes of the buffers and chunks parse is tried on.
ParseBytes == Bytes

\* The states a preprocessor can be in between two calls: ExpectFrameSize
\* with the bytes of a header read so far, none of them a space, or
\* ExpectBytes(n) with the bytes buffered, for n from 0 (the header "2 "
\* after a frame of the same chunk leaves ExpectBytes(0)) and for the n
\* below zero of a subtraction that wrapped.
ParserStates ==
    {<<ExpectFrameSize, buf>> :
        buf \in {b \in SeqsUpTo(ParseBytes, MaxBuf) :
                    \A i \in DOMAIN b : b[i] # " "}}
        \cup {<<ExpectBytes(n), buf>> :
                n \in (-1) .. MaxBuf, buf \in SeqsUpTo(ParseBytes, MaxBuf)}

\* A preprocessor in any such state, then one call of process.
ParseInit ==
    /\ NoPipelines
    /\ HelperNew
    /\ NoStream
    /\ NoFold
    /\ NoRun
    /\ \E s \in ParserStates :
        /\ state = s[1]
        /\ frame_buffer = s[2]
        /\ before = [state |-> s[1], frame_buffer |-> s[2]]
    /\ data = <<>>
    /\ returned = [out |-> "none", frames |-> <<>>]
    /\ steps = [sources |-> <<>>, depth |-> 0]

ParseNext ==
    \E chunk \in SeqsUpTo(ParseBytes, MaxBuf) :
        /\ returned.out = "none"
        /\ Process(chunk)
        /\ UNCHANGED streamvars

ParseSpec == ParseInit /\ [][ParseNext]_vars

\* ------------------------------------------------ constant folding
\* Most arguments of an invocation and most elements of a list; most
\* fields of a record.
MaxArgs == 4
MaxFields == 2

\* Value: null, bool, i64 and string share one shape.
Scalar(type, num, str) == [type |-> type, num |-> num, str |-> str]
Null == Scalar("null", 0, "")
Bool(b) == Scalar("bool", IF b THEN 1 ELSE 0, "")
I64(n) == Scalar("i64", n, "")
Str(s) == Scalar("string", 0, s)
Array(elems) == [type |-> "array", elems |-> elems]
Object(fields) == [type |-> "object", fields |-> fields]

\* Result<T>
Good(v) == [res |-> "ok", v |-> v]
Bad(kind) == [res |-> "err", kind |-> kind]

\* ImutExprInt::Literal(Literal {mid, value}) and ImutExprInt::Local {idx, mid}
Literal(mid, value) == [node |-> "Literal", mid |-> mid, value |-> value]
Local(mid, idx) == [node |-> "Local", mid |-> mid, idx |-> idx]

\* The structs try_reduce is a method of.
Field(mid, name, value) == [mid |-> mid, name |-> name, value |-> value]
Record(mid, fields) == [struct |-> "Record", mid |-> mid, fields |-> fields]
List(mid, exprs) == [struct |-> "List", mid |-> mid, exprs |-> exprs]
Invoke(mid, fun, args) == [struct |-> "Invoke", mid |-> mid, fun |-> fun, args |-> args]
BinExpr(mid, kind, lhs, rhs) ==
    [struct |-> "BinExpr", mid |-> mid, kind |-> kind, lhs |-> lhs, rhs |-> rhs]
UnaryExpr(mid, kind, e) == [struct |-> "UnaryExpr", mid |-> mid, kind |-> kind, expr |-> e]

\* ImutExprInt::Record(self), ::List(self), ::Invoke1(self), ...
Node(variant, self) == [node |-> variant, self |-> self]

is_lit(e) == e.node = "Literal"

\* raw::reduce2: the value of a literal, NotConstant for any other node.
reduce2(e) == IF is_lit(e) THEN Good(e.value) ELSE Bad("NotConstant")

\* interpreter::exec_binary on the operators and types modelled.
exec_binary(kind, lhs, rhs) ==
    IF kind = "Eq" THEN Good(Bool(lhs = rhs))
    ELSE IF lhs.type = "i64" /\ rhs.type = "i64"
    THEN (IF kind = "Add" THEN Good(I64(lhs.num + rhs.num))
          ELSE IF kind = "Sub" THEN Good(I64(lhs.num - rhs.num))
          ELSE IF kind = "Gt" THEN Good(Bool(lhs.num > rhs.num))
          ELSE Bad("InvalidBinary"))
    ELSE Bad("InvalidBinary")

\* interpreter::exec_unary: None is Bad("None").
exec_unary(kind, v) ==
    IF v.type = "i64" /\ kind = "Minus" THEN Good(I64(0 - v.num))
    ELSE IF v.type = "i64" /\ kind = "Plus" THEN Good(v)
    ELSE IF v.type = "i64" /\ kind = "BitNot" THEN Good(I64(0 - v.num - 1))
    ELSE IF v.type = "bool" /\ kind = "Not" THEN Good(Bool(v.num = 0))
    ELSE Bad("None")

\* The registry's functions: is_const and what invoke answers.
Funs == {"math::succ", "system::ingest_ns", "string::len"}
FunIsConst(fun) == fun # "system::ingest_ns"
FunInvoke(fun, args) ==
    IF fun = "math::succ"
    THEN (IF Len(args) = 1 /\ args[1].type = "i64"
          THEN Good(I64(args[1].num + 1)) ELSE Bad("RuntimeError"))
    ELSE IF fun = "string::len"
    THEN (IF Len(args) = 1 /\ args[1].type = "string"
          THEN Good(I64(1)) ELSE Bad("RuntimeError"))
    ELSE Good(I64(0))

BinOpKinds == {"Eq", "Add", "Sub"}
UnaryOpKinds == {"Plus", "Minus", "Not", "BitNot"}

\* Operands, arguments, elements and field values: literals and a local.
Atoms ==
    {Literal(0, v) : v \in {I64(1), I64(2), Str("a"), Bool(TRUE)}} \cup {Local(0, 0)}

\* Field names: string literals, or an expression still to be evaluated.
Names == {Literal(0, Str("a")), Literal(0, Str("b")), Local(0, 0)}

\* Mids of the constructors, apart from those of their parts.
Mids == {1, 2}

\* The object a Vec of (name, value) pairs collects into.
RECURSIVE Collect(_)
Collect(pairs) ==
    IF pairs = <<>>
    THEN EmptyMap
    ELSE Put(Collect(SubSeq(pairs, 1, Len(pairs) - 1)),
             pairs[Len(pairs)][1], pairs[Len(pairs)][2])

\* Mutant of RecordTryReduce: only the values are asked for literals; a
\* name that is none does not stop the fold.
RecordTryReduceValues(self) ==
    IF \A i \in DOMAIN self.fields : is_lit(self.fields[i].value)
    THEN Good(Literal(self.mid,
            Object(Collect([i \in DOMAIN self.fields |->
                <<IF is_lit(self.fields[i].name) THEN self.fields[i].name.value.str ELSE "",
                  self.fields[i].value.value>>]))))
    ELSE Good(Node("Record", self))

\* Record::try_reduce
RecordTryReduce(self) ==
    IF \A i \in DOMAIN self.fields :
          is_lit(self.fields[i].name) /\ is_lit(self.fields[i].value)
    THEN Good(Literal(self.mid,
            Object(Collect([i \in DOMAIN self.fields |->
                <<reduce2(self.fields[i].name).v.str, reduce2(self.fields[i].value).v>>]))))
    ELSE Good(Node("Record", self))

\* List::try_reduce
ListTryReduce(self) ==
    IF \A i \in DOMAIN self.exprs : is_lit(self.exprs[i])
    THEN Good(Literal(self.mid, Array([i \in DOMAIN self.exprs |-> reduce2(self.exprs[i]).v])))
    ELSE Good(Node("List", self))

\* Mutant of InvokeTryReduce: is_const is not asked.
InvokeTryReduceAnyFun(self) ==
    IF \A i \in DOMAIN self.args : is_lit(self.args[i])
    THEN LET v == FunInvoke(self.fun, [i \in DOMAIN self.args |-> reduce2(self.args[i]).v])
         IN  IF v.res = "ok" THEN Good(Literal(self.mid, v.v)) ELSE v
    ELSE Good(Node("Invoke", self))

\* Invoke::try_reduce
InvokeTryReduce(self) ==
    IF FunIsConst(self.fun) /\ \A i \in DOMAIN self.args : is_lit(self.args[i])
    THEN LET v == FunInvoke(self.fun, [i \in DOMAIN self.args |-> reduce2(self.args[i]).v])
         IN  IF v.res = "ok" THEN Good(Literal(self.mid, v.v)) ELSE v
    ELSE Good(Node(IF Len(self.args) = 1 THEN "Invoke1"
                   ELSE IF Len(self.args) = 2 THEN "Invoke2"
                   ELSE IF Len(self.args) = 3 THEN "Invoke3"
                   ELSE "Invoke", self))

\* BinExpr::try_reduce
BinExprTryReduce(self) ==
    IF is_lit(self.lhs) /\ is_lit(self.rhs)
    THEN LET value == exec_binary(self.kind, reduce2(self.lhs).v, reduce2(self.rhs).v)
         IN  IF value.res = "ok" THEN Good(Literal(self.mid, value.v)) ELSE value
    ELSE Good(Node("Binary", self))

\* UnaryExpr::try_reduce
UnaryExprTryReduce(self) ==
    IF is_lit(self.expr)
    THEN LET value == exec_unary(self.kind, reduce2(self.expr).v)
         IN  IF value.res = "ok" THEN Good(Literal(self.mid, value.v))
             ELSE Bad("InvalidUnary")
    ELSE Good(Node("Unary", self))

\* One call of try_reduce on the node at hand.
TryReduce(struct, result) ==
    /\ expr.struct = struct
    /\ reduced.res = "none"
    /\ reduced' = result
    /\ UNCHANGED <<expr, const_values>>
    /\ UNCHANGED notFold

FoldRecord == TryReduce("Record", RecordTryReduce(expr))
FoldList == TryReduce("List", ListTryReduce(expr))
FoldInvoke == TryReduce("Invoke", InvokeTryReduce(expr))
FoldBinExpr == TryReduce("BinExpr", BinExprTryReduce(expr))
FoldUnaryExpr == TryReduce("UnaryExpr", UnaryExprTryReduce(expr))

\* The ids of the reserved constants window, group and args: the first
\* three slots of const_values, which init_consts fills with null.
WINDOW_CONST_ID == 0
GROUP_CONST_ID == 1
ARGS_CONST_ID == 2
LAST_RESERVED_CONST == ARGS_CONST_ID

\* Most constants a script declares.
MaxConsts == 2

\* Helper::init_consts: const_values after it, one null per reserved id.
init_consts == [i \in 1..3 |-> Null]

\* Segment::Id
SegmentId(key, mid) == [seg |-> "Id", key |-> key, mid |-> mid]

\* Path::Const(LocalPath {..}) and Path::Local(LocalPath {..})
LocalPath(variant, is_const, idx, mid, segments) ==
    [struct |-> "Path", variant |-> variant, is_const |-> is_const,
     idx |-> idx, mid |-> mid, segments |-> segments]

\* Path::Event(EventPath {mid, segments})
PathEvent(mid, segments) ==
    [struct |-> "Path", variant |-> "Event", mid |-> mid, segments |-> segments]

\* Mutant of PathTryReduce: the guard reads idx >= LAST_RESERVED_CONST.
PathTryReduceFromLast(self, values) ==
    IF /\ self.variant = "Const"
       /\ self.is_const
       /\ self.segments = <<>>
       /\ self.idx >= LAST_RESERVED_CONST
    THEN (IF self.idx < Len(values)
          THEN Good(Literal(self.mid, values[self.idx + 1]))
          ELSE Bad("Generic"))
    ELSE Good(Node("Path", self))

\* Path::try_reduce; values is helper.const_values, and Vec::get(idx) is
\* values[idx + 1] when idx < len.
PathTryReduce(self, values) ==
    IF /\ self.variant = "Const"
       /\ self.is_const
       /\ self.segments = <<>>
       /\ self.idx > LAST_RESERVED_CONST
    THEN (IF self.idx < Len(values)
          THEN Good(Literal(self.mid, values[self.idx + 1]))
          ELSE Bad("Generic"))
    ELSE Good(Node("Path", self))

FoldPath == TryReduce("Path", PathTryReduce(expr, const_values))

\* The paths handed to try_reduce: constant and local paths on every
\* slot up to one past the last a script can declare, and event paths.
Paths ==
    LET Segs == {<<>>, <<SegmentId("a", 0)>>}
        Idxs == 0..(LAST_RESERVED_CONST + MaxConsts + 1)
    IN {LocalPath("Const", c, i, mid, segs) :
            c \in BOOLEAN, i \in Idxs, mid \in Mids, segs \in Segs}
       \cup {LocalPath("Local", FALSE, i, mid, segs) :
            i \in Idxs, mid \in Mids, segs \in Segs}
       \cup {PathEvent(mid, segs) : mid \in Mids, segs \in Segs}

\* const_values of a Helper: empty after new, then the reserved slots
\* followed by the values of the constants declared so far.
ConstValues ==
    {<<>>} \cup {init_consts \o vs : vs \in SeqsUpTo({I64(1), Str("a")}, MaxConsts)}

\* The nodes the compiler hands to try_reduce: their parts were reduced
\* before, so they are literals or nodes left for the runtime.
Exprs ==
    {Record(mid, fs) : mid \in Mids,
        fs \in SeqsUpTo({Field(0, n, v) : n \in Names, v \in Atoms}, MaxFields)}
    \cup {List(mid, es) : mid \in Mids, es \in SeqsUpTo(Atoms, MaxArgs)}
    \cup {Invoke(1, f, as) : f \in Funs, as \in SeqsUpTo(Atoms, MaxArgs)}
    \cup {BinExpr(1, k, l, r) : k \in BinOpKinds, l \in Atoms, r \in Atoms}
    \cup {UnaryExpr(1, k, e) : k \in UnaryOpKinds, e \in Atoms}

FoldInit ==
    /\ NoPipelines
    /\ HelperNew
    /\ SyslogNew
    /\ NoStream
    /\ NoRun
    /\ \/ expr \in Exprs /\ const_values = init_consts
       \/ expr \in Paths /\ const_values \in ConstValues
    /\ reduced = [res |-> "none"]

FoldNext ==
    \/ FoldRecord
    \/ FoldList
    \/ FoldInvoke
    \/ FoldBinExpr
    \/ FoldUnaryExpr
    \/ FoldPath

FoldSpec == FoldInit /\ [][FoldNext]_vars

\* ------------------------------------------------- register_fun
\* Most calls of register_fun on one Helper.
MaxCalls == 3

\* Helper.module: empty from Helper::new on, nothing pushes onto it.
module == <<>>

\* CustomFn: its name, and its body told apart by a tag.
CustomFn(name, body) == [name |-> name, body |-> body]
CustomFns == {CustomFn(n, b) : n \in {"f", "g", "h"}, b \in {1, 2}}

\* Helper::register_fun. HashMap::insert stores i under mf whether or not
\* the name was there, and answers the value it replaced.
RegisterFun(f) ==
    LET i == Len(func_vec)
        mf == Append(module, f.name)
        replaced == mf \in DOMAIN functions
    IN /\ Len(calls) < MaxCalls
       /\ functions' = Put(functions, mf, i)
       /\ IF ~replaced
          THEN /\ func_vec' = Append(func_vec, f)
               /\ registered' = Good(i)
          ELSE /\ func_vec' = func_vec
               /\ registered' = Bad("already defined")
       /\ calls' = Append(calls, f)
       /\ UNCHANGED <<locals, shadowed_vars, slots, outer, handed, ret>>
       /\ UNCHANGED notHelper

RegistryInit ==
    /\ NoPipelines
    /\ LangNew

RegistryNext == \E f \in CustomFns : RegisterFun(f)

RegistrySpec == RegistryInit /\ [][RegistryNext]_vars

\* ----------------------------------------------------- Script::run
\* Most top-level expressions of a script.
MaxExprs == 3

\* Option<String>::None of an emit's port.
PortNone == "None"

\* ImutExprInt::Path(Path::Event(EventPath {segments}))
EventPath(segments) == [node |-> "Path", path |-> "Event", segments |-> segments]

\* Expr::Imut, Expr::Drop, Expr::Emit(EmitExpr {expr, port}) and
\* Expr::Match(Match {target, patterns})
Imut(e) == [expr |-> "Imut", imut |-> e]
Drop == [expr |-> "Drop"]
Emit(e, port) == [expr |-> "Emit", imut |-> e, port |-> port]
Match(target, patterns) == [expr |-> "Match", target |-> target, patterns |-> patterns]

\* PredicateClause {pattern, exprs}, with the patterns %{lhs > rhs}
\* (Pattern::Record of one PredicatePattern::Bin) and Pattern::Default.
PredicateClause(pattern, exprs) == [pattern |-> pattern, exprs |-> exprs]
RecordPatternGt(lhs, rhs) == [pattern |-> "Record", lhs |-> lhs, kind |-> "Gt", rhs |-> rhs]
DefaultPattern == [pattern |-> "Default"]

\* interpreter::Cont
ContCont(v) == [cont |-> "Cont", value |-> v, port |-> PortNone]
ContDrop == [cont |-> "Drop", value |-> Null, port |-> PortNone]
ContEmit(v, port) == [cont |-> "Emit", value |-> v, port |-> port]
ContEmitEvent(port) == [cont |-> "EmitEvent", value |-> Null, port |-> port]

\* Return
ReturnDrop == [return |-> "Drop", value |-> Null, port |-> PortNone]
ReturnEmit(v, port) == [return |-> "Emit", value |-> v, port |-> port]
ReturnEmitEvent(port) == [return |-> "EmitEvent", value |-> Null, port |-> port]

RECURSIVE RunImut(_, _)
\* The interpreter's evaluation of an immutable expression against the
\* event ev.
RunImut(e, ev) ==
    IF e.node = "Literal" THEN Good(e.value)
    ELSE IF e.node = "Path"
    THEN (IF e.segments = <<>> THEN Good(ev)
          ELSE IF ev.type = "object" /\ e.segments[1] \in DOMAIN ev.fields
          THEN Good(ev.fields[e.segments[1]])
          ELSE Bad("BadAccess"))
    ELSE IF e.node = "Binary"
    THEN LET lhs == RunImut(e.self.lhs, ev)
             rhs == RunImut(e.self.rhs, ev)
         IN  IF lhs.res = "err" THEN lhs
             ELSE IF rhs.res = "err" THEN rhs
             ELSE exec_binary(e.self.kind, lhs.v, rhs.v)
    ELSE IF e.node = "Unary"
    THEN LET v == RunImut(e.self.expr, ev)
         IN  IF v.res = "err" THEN v
             ELSE IF exec_unary(e.self.kind, v.v).res = "ok"
             THEN exec_unary(e.self.kind, v.v)
             ELSE Bad("InvalidUnary")
    ELSE Bad("BadAccess")

\* Whether the pattern of a clause matches the target value.
Matches(pattern, target) ==
    \/ pattern.pattern = "Default"
    \/ /\ pattern.pattern = "Record"
       /\ target.type = "object"
       /\ pattern.lhs \in DOMAIN target.fields
       /\ exec_binary(pattern.kind, target.fields[pattern.lhs], pattern.rhs) = Good(Bool(TRUE))

RECURSIVE RunExpr(_, _)
RECURSIVE RunExprs(_, _, _)
\* The interpreter's Expr::run of the expressions of a clause from the
\* i-th on: the first Drop, Emit or error ends them, the value of the
\* last one is theirs.
RunExprs(exprs, i, ev) ==
    LET c == RunExpr(exprs[i], ev)
    IN  IF i > Len(exprs) THEN Good(ContCont(Null))
        ELSE IF c.res = "err" \/ c.v.cont # "Cont" \/ i = Len(exprs) THEN c
        ELSE RunExprs(exprs, i + 1, ev)

\* The interpreter's Expr::run of one expression against the event ev:
\* Ok(Cont) or an error.
RunExpr(e, ev) ==
    IF e.expr = "Drop" THEN Good(ContDrop)
    ELSE IF e.expr = "Imut"
    THEN LET v == RunImut(e.imut, ev)
         IN  IF v.res = "err" THEN v ELSE Good(ContCont(v.v))
    ELSE IF e.expr = "Emit"
    THEN (IF e.imut = EventPath(<<>>)
          THEN Good(ContEmitEvent(e.port))
          ELSE LET v == RunImut(e.imut, ev)
               IN  IF v.res = "err" THEN v ELSE Good(ContEmit(v.v, e.port)))
    ELSE LET target == RunImut(e.target, ev)
             hits == {k \in DOMAIN e.patterns : Matches(e.patterns[k].pattern, target.v)}
             first == CHOOSE k \in hits : \A j \in hits : k <= j
         IN  IF target.res = "err" THEN target
             ELSE IF hits = {} THEN Bad("NoClauseHit")
             ELSE RunExprs(e.patterns[first].exprs, 1, ev)

\* What run has done: the expressions evaluated so far and, once it has
\* returned, the Result<Return>.
Ran(trace, result) == [evaluated |-> trace, ran |-> result]

RECURSIVE ScriptRunLastAsAny(_, _, _, _)
\* Mutant of ScriptRun: the last expression is run like the others.
ScriptRunLastAsAny(exprs, i, ev, trace) ==
    IF i > Len(exprs)
    THEN Ran(trace, Good(ReturnEmit(Null, PortNone)))
    ELSE LET c == RunExpr(exprs[i], ev)
             seen == Append(trace, [expr |-> i, result_needed |-> FALSE])
         IN  IF c.res = "err" THEN Ran(seen, c)
             ELSE IF c.v.cont = "Drop" THEN Ran(seen, Good(ReturnDrop))
             ELSE IF c.v.cont = "Emit" THEN Ran(seen, Good(ReturnEmit(c.v.value, c.v.port)))
             ELSE IF c.v.cont = "EmitEvent" THEN Ran(seen, Good(ReturnEmitEvent(c.v.port)))
             ELSE ScriptRunLastAsAny(exprs, i + 1, ev, seen)

RECURSIVE ScriptRunPastDrop(_, _, _, _)
\* Mutant of ScriptRun: a Drop of an expression that is not the last one
\* does not end the run.
ScriptRunPastDrop(exprs, i, ev, trace) ==
    IF i > Len(exprs)
    THEN Ran(trace, Good(ReturnEmit(Null, PortNone)))
    ELSE LET last == i = Len(exprs)
             c == RunExpr(exprs[i], ev)
             seen == Append(trace, [expr |-> i, result_needed |-> last])
         IN  IF c.res = "err" THEN Ran(seen, c)
             ELSE IF c.v.cont = "Drop" /\ last THEN Ran(seen, Good(ReturnDrop))
             ELSE IF c.v.cont = "Emit" THEN Ran(seen, Good(ReturnEmit(c.v.value, c.v.port)))
             ELSE IF c.v.cont = "EmitEvent" THEN Ran(seen, Good(ReturnEmitEvent(c.v.port)))
             ELSE IF last THEN Ran(seen, Good(ReturnEmit(c.v.value, PortNone)))
             ELSE ScriptRunPastDrop(exprs, i + 1, ev, seen)

RECURSIVE ScriptRun(_, _, _, _)
\* Script::run from the i-th expression on: the while loop over
\* exprs.peekable(), with_result() for the expression nothing follows and
\* without_result() for the others, stry! returning an error.
ScriptRun(exprs, i, ev, trace) ==
    IF i > Len(exprs)
    THEN Ran(trace, Good(ReturnEmit(Null, PortNone)))
    ELSE LET last == i = Len(exprs)
             c == RunExpr(exprs[i], ev)
             seen == Append(trace, [expr |-> i, result_needed |-> last])
         IN  IF c.res = "err" THEN Ran(seen, c)
             ELSE IF c.v.cont = "Drop" THEN Ran(seen, Good(ReturnDrop))
             ELSE IF c.v.cont = "Emit" THEN Ran(seen, Good(ReturnEmit(c.v.value, c.v.port)))
             ELSE IF c.v.cont = "EmitEvent" THEN Ran(seen, Good(ReturnEmitEvent(c.v.port)))
             ELSE IF last THEN Ran(seen, Good(ReturnEmit(c.v.value, PortNone)))
             ELSE ScriptRun(exprs, i + 1, ev, seen)

\* script.run(context, aggr, event, state, meta)
Run ==
    /\ script # <<>>
    /\ ran.res = "none"
    /\ evaluated' = ScriptRun(script, 1, event, <<>>).evaluated
    /\ ran' = ScriptRun(script, 1, event, <<>>).ran
    /\ UNCHANGED <<script, event>>
    /\ UNCHANGED notRun

\* match event of case %{a > 5} => event.a + 1 default => emit end
MatchScript ==
    Match(EventPath(<<>>),
          <<PredicateClause(RecordPatternGt("a", I64(5)),
               <<Imut(Node("Binary",
                    BinExpr(2, "Add", EventPath(<<"a">>), Literal(3, I64(1)))))>>),
            PredicateClause(DefaultPattern, <<Emit(EventPath(<<>>), PortNone)>>)>>)

\* The top-level expressions of the scripts run: a literal, drop, an emit
\* of a value to a port, emit, event.a + 1, an invalid unary and the match.
TopExprs ==
    {Imut(Literal(1, I64(7))),
     Drop,
     Emit(Literal(1, I64(2)), "err"),
     Emit(EventPath(<<>>), PortNone),
     Imut(Node("Binary", BinExpr(2, "Add", EventPath(<<"a">>), Literal(3, I64(1))))),
     Imut(Node("Unary", UnaryExpr(2, "Not", Literal(3, I64(1))))),
     MatchScript}

\* A script has at least one expression.
Scripts == SeqsUpTo(TopExprs, MaxExprs) \ {<<>>}

\* The events: {"a": 10} and {"a": 1}.
Events == {Object([k \in {"a"} |-> I64(n)]) : n \in {1, 10}}

RunInit ==
    /\ NoPipelines
    /\ HelperNew
    /\ SyslogNew
    /\ NoStream
    /\ NoFold
    /\ script \in Scripts
    /\ event \in Events
    /\ evaluated = <<>>
    /\ ran = [res |-> "none"]

RunNext == Run

RunSpec == RunInit /\ [][RunNext]_vars

\* ================================================================ claims
\* The pipelines whose channel actor p's next send goes into.
PendingTo(p) ==
    IF sigq[p] # <<>>
    THEN (IF /\ Head(sigq[p]).kind = "Pipeline"
             /\ ~SignalSendFails(Head(sigq[p]))
             /\ ~SignalSkipped(Head(sigq[p]))
          THEN {Head(sigq[p]).addr} ELSE {})
    ELSE IF nins[p] = 0 /\ ctlq[p] = <<>> /\ evq[p] # <<>>
    THEN (IF Head(evq[p]).kind = "Pipeline" /\ ~EventSendFails(Head(evq[p]))
          THEN {Head(evq[p]).addr} ELSE {})
    ELSE {}

\* Actor p is blocked in a send into the full channel of pipeline q.
WaitsOn(p, q) == q \in PendingTo(p) /\ ~CanSend(q)

\* All (id, dest) pairs of a routing table.
AllDests(d) == UNION {{d[port][i] : i \in DOMAIN d[port]} : port \in DOMAIN d}

SameDest(op, e) == op.id = e.id /\ op.kind = e.kind /\ op.addr = e.addr

Handled(p, type) == Done(p) /\ cur[p].msg.type = type

\* C1: with bounded inbound channels no topology built by Connect messages
\* deadlocks: there is never a set of actors each blocked in a send into
\* the full channel of an actor of the set (so that no receiver of these
\* channels can make progress and every sender into them, tick generators
\* included, stays blocked).
C1_NoDeadlock ==
    ~ \E S \in (SUBSET Pipelines) \ {{}} :
        \A p \in S : \E q \in S : WaitsOn(p, q)

\* C2: a channel never holds more than qsize messages; a send into a
\* channel completes only by appending its message at the end, which needs
\* room (a sender facing a full channel does not get past its send); a
\* message leaves a channel only as the head received by the actor loop.
C2_Backpressure ==
    [][\A p \in Pipelines :
        /\ Len(chan'[p]) <= QSize
        /\ \/ chan'[p] = chan[p]
           \/ /\ Len(chan[p]) < QSize
              /\ Len(chan'[p]) = Len(chan[p]) + 1
              /\ SubSeq(chan'[p], 1, Len(chan[p])) = chan[p]
           \/ /\ chan[p] # <<>>
              /\ chan'[p] = Tail(chan[p])
              /\ Idle(p)
              /\ cur'[p].msg = Head(chan[p])
        /\ \A q \in PendingTo(p) :
             Len(log'[p]) = Len(log[p]) + 1
                => /\ Len(chan[q]) < QSize
                   /\ Len(chan'[q]) = Len(chan[q]) + 1
                   /\ chan'[q][Len(chan'[q])] =
                        (IF sigq[p] # <<>>
                         THEN SignalMsg(Head(sigq[p]).signal)
                         ELSE EventMsg(InstancePort(Head(evq[p]).id),
                                       Head(evq[p]).ev))]_vars

\* C2 witness: an actor is blocked in a send into a channel that holds
\* qsize messages.
C2_Witness == \E p, q \in Pipelines : WaitsOn(p, q) /\ Len(chan[q]) = QSize

\* C3: after an Event message, each event the graph emitted on a port with
\* N >= 2 destinations was sent exactly once to each of the N, in table
\* order, as a clone to the first N - 1 and as the original to the last.
C3_FanOut ==
    \A p \in Pipelines :
        (Handled(p, "Event") /\ cur[p].ok) =>
            \A n \in DOMAIN cur[p].eventset :
                LET e == cur[p].eventset[n] IN
                (e.port \in DOMAIN dests[p] /\ Len(dests[p][e.port]) >= 2) =>
                    LET ops == FanOut(dests[p][e.port], e.port, e.ev, n)
                    IN  SelectSeq(log[p], LAMBDA l : l.what = "event" /\ l.op.n = n)
                          = [i \in DOMAIN ops |-> Logged("event", ops[i], "ok")]

\* C4: after an Event message, every (event, destination) delivery that
\* does not itself fail was made, whatever failed before it.
C4_FailureIsolation ==
    \A p \in Pipelines :
        (Handled(p, "Event") /\ cur[p].ok) =>
            LET ops == SendEvents(cur[p].eventset, dests[p]) IN
            \A i \in DOMAIN ops :
                ~EventSendFails(ops[i]) =>
                    \E k \in DOMAIN log[p] :
                        log[p][k] = Logged("event", ops[i], "ok")

\* C5: an event emitted on output port p is sent only to destinations
\* listed in the routing-table entry for p; in particular, with "out" and
\* "err" connected to one sink each, an event emitted on one port is never
\* sent to the sink of the other.
C5_PortIsolation ==
    \A p \in Pipelines : \A k \in DOMAIN log[p] :
        log[p][k].what = "event" =>
            LET op == log[p][k].op IN
            /\ op.port \in DOMAIN dests[p]
            /\ \E i \in DOMAIN dests[p][op.port] :
                 SameDest(op, dests[p][op.port][i])

\* C5 witness: "out" and "err" are connected to one destination each, two
\* different ones, and an event emitted on "out" has been sent.
C5_Witness ==
    \E p \in Pipelines :
        /\ DOMAIN dests[p] = {"out", "err"}
        /\ Len(dests[p]["out"]) = 1 /\ Len(dests[p]["err"]) = 1
        /\ dests[p]["out"] # dests[p]["err"]
        /\ \E k \in DOMAIN log[p] :
             /\ log[p][k].what = "event" /\ log[p][k].res = "ok"
             /\ log[p][k].op.port = "out"

\* C6: a signal is never forwarded to a destination whose id is the
\* pipeline's own id.
C6_NoSelfSignal ==
    \A p \in Pipelines : \A k \in DOMAIN log[p] :
        (log[p][k].what = "signal" /\ log[p][k].res # "skip")
            => log[p][k].op.id # OwnId(p)

\* C6 witness: a pipeline with a destination under its own id and another
\* destination has processed a non-Tick signal and forwarded it.
C6_Witness ==
    \E p \in Pipelines :
        /\ Handled(p, "Signal") /\ cur[p].ok /\ cur[p].msg.kind # "Tick"
        /\ \E e \in AllDests(dests[p]) : e.id = OwnId(p)
        /\ \E k \in DOMAIN log[p] :
             log[p][k].what = "signal" /\ log[p][k].res = "ok"

\* C7: after a Tick, every distinct destination other than the pipeline's
\* own id has been sent that Tick exactly once.
C7_TickOnce ==
    \A p \in Pipelines :
        (Handled(p, "Signal") /\ cur[p].msg.kind = "Tick") =>
            \A e \in AllDests(dests[p]) :
                e.id # OwnId(p) =>
                    Len(SelectSeq(log[p], LAMBDA l : /\ l.what = "signal"
                                              /\ l.res = "ok"
                                              /\ SameDest(l.op, e))) = 1

\* C8: after a Signal message, send_signal has reached every destination
\* other than the pipeline itself, also when enqueue_signal failed or a
\* send to an earlier destination failed.
C8_SignalNeverDropped ==
    \A p \in Pipelines :
        Handled(p, "Signal") =>
            \A e \in AllDests(dests[p]) :
                e.id # OwnId(p) =>
                    \E k \in DOMAIN log[p] :
                        log[p][k].what = "signal" /\ SameDest(log[p][k].op, e)

\* The number of control messages msg sent to the source registered under
\* id for the i-th insight of the message.
Ctls(p, i, id, msg) ==
    Len(SelectSeq(log[p], LAMBDA l : /\ l.what = "ctl" /\ l.op.i = i
                              /\ l.op.id = id /\ l.op.msg = msg))

\* C9 as stated: for an insight with trigger=true every registered source
\* is sent exactly one Trigger, with restore=true exactly one Restore, no
\* source more than one control message, and with neither flag nothing.
C9_Original ==
    \A p \in Pipelines :
        Done(p) =>
            \A i \in DOMAIN cur[p].flags : \A id \in DOMAIN onramps[p] :
                LET f == cur[p].flags[i] IN
                /\ f.trigger => Ctls(p, i, id, "Trigger") = 1
                /\ f.restore => Ctls(p, i, id, "Restore") = 1
                /\ Ctls(p, i, id, "Trigger") + Ctls(p, i, id, "Restore") <= 1
                /\ (~f.trigger /\ ~f.restore) =>
                     Ctls(p, i, id, "Trigger") + Ctls(p, i, id, "Restore") = 0

\* C9 amended: with trigger=true every registered source is sent exactly
\* one Trigger and no Restore; with restore=true and trigger not true,
\* exactly one Restore and no Trigger; with neither flag nothing; and
\* nothing is sent to an address that is not registered.
C9_CircuitBreaker ==
    \A p \in Pipelines :
        Done(p) =>
            /\ \A i \in DOMAIN cur[p].flags : \A id \in DOMAIN onramps[p] :
                LET f == cur[p].flags[i]
                    t == Ctls(p, i, id, "Trigger")
                    r == Ctls(p, i, id, "Restore")
                IN  /\ f.trigger => t = 1 /\ r = 0
                    /\ (~f.trigger /\ f.restore) => t = 0 /\ r = 1
                    /\ (~f.trigger /\ ~f.restore) => t = 0 /\ r = 0
            /\ \A k \in DOMAIN log[p] :
                log[p][k].what = "ctl" =>
                    /\ log[p][k].op.id \in DOMAIN onramps[p]
                    /\ log[p][k].op.addr = onramps[p][log[p][k].op.id]
                    /\ log[p][k].op.i \in DOMAIN cur[p].flags

\* C9 witness: two sources are registered and an insight with restore=true
\* only has been handled.
C9_Witness ==
    \E p \in Pipelines :
        /\ Done(p)
        /\ Cardinality(DOMAIN onramps[p]) >= 2
        /\ \E i \in DOMAIN cur[p].flags :
             /\ ~cur[p].flags[i].trigger /\ cur[p].flags[i].restore
             /\ \A id \in DOMAIN onramps[p] : Ctls(p, i, id, "Restore") = 1

\* C10: for one insight a pipeline never sends both a Trigger and a
\* Restore, also when the insight has both flags set.
C10_Exclusive ==
    \A p \in Pipelines : \A k, l \in DOMAIN log[p] :
        (/\ log[p][k].what = "ctl" /\ log[p][l].what = "ctl"
         /\ log[p][k].op.i = log[p][l].op.i)
            => log[p][k].op.msg = log[p][l].op.msg

\* C10 witness: an insight with both flags set has been handled with a
\* source registered, and a Trigger was sent for it.
C10_Witness ==
    \E p \in Pipelines :
        /\ Done(p)
        /\ \E i \in DOMAIN cur[p].flags :
             /\ cur[p].flags[i].trigger /\ cur[p].flags[i].restore
             /\ \E id \in DOMAIN onramps[p] : Ctls(p, i, id, "Trigger") = 1

\* A pipeline destination leading from a to b is in a's routing table.
Feeds(a, b) ==
    \E e \in AllDests(dests[a]) : e.kind = "Pipeline" /\ e.addr = b

\* Actor p has handled an Insight message whose flags select msg.
InsightHandled(p, msg) ==
    /\ Handled(p, "Insight")
    /\ cur[p].flags[1].trigger = (msg = "Trigger")
    /\ cur[p].flags[1].trigger \/ cur[p].flags[1].restore

\* Actor p sends msg to a source it has registered.
SourceSent(p, msg) ==
    \E k \in DOMAIN log[p] :
        /\ log[p][k].what = "ctl" /\ log[p][k].op.msg = msg
        /\ log[p][k].op.id \in DOMAIN onramps[p]

\* C11: in a chain source -> a -> b, an insight with trigger=true (resp.
\* restore=true) handled by b leads to the source registered at a being
\* sent Trigger (resp. Restore) by a.
C11_Upstream ==
    \A a, b \in Pipelines : \A msg \in {"Trigger", "Restore"} :
        (a # b /\ Feeds(a, b) /\ onramps[a] # EmptyMap /\ InsightHandled(b, msg))
            ~> SourceSent(a, msg)

\* C12: with channels that hold several messages, a channel changes only
\* by a message being put behind the ones already in it, or by its idle
\* actor taking the one sent first, whatever the kinds of the messages
\* behind it; an actor takes a message only between two messages (the one
\* before is through); while a message is processed the message in hand
\* does not change and its sends are made in the order send_signal /
\* send_events list them, each arriving behind what the destination's
\* channel already holds; nothing is sent between two messages.
C12_InOrder ==
    [][\A p \in Pipelines :
        /\ cur'[p].msg # cur[p].msg =>
              \/ /\ Idle(p)
                 /\ chan[p] # <<>>
                 /\ cur'[p].msg = Head(chan[p])
                 /\ chan'[p] = Tail(chan[p])
              \/ Done(p) /\ cur'[p] = NoCur
        /\ chan'[p] # chan[p] =>
              \/ /\ Len(chan'[p]) = Len(chan[p]) + 1
                 /\ SubSeq(chan'[p], 1, Len(chan[p])) = chan[p]
              \/ /\ chan[p] # <<>>
                 /\ chan'[p] = Tail(chan[p])
                 /\ Idle(p)
                 /\ cur'[p].msg = Head(chan[p])
        /\ (~Idle(p) /\ sigq'[p] # sigq[p]) =>
              \/ sigq'[p] = Tail(sigq[p])
              \/ sigq'[p] = <<>> /\ SignalSendFails(Head(sigq[p]))
        /\ (~Idle(p) /\ evq'[p] # evq[p]) =>
              /\ sigq[p] = <<>> /\ nins[p] = 0 /\ ctlq[p] = <<>>
              /\ \/ evq'[p] = Tail(evq[p])
                 \/ evq'[p] = <<>> /\ EventSendFails(Head(evq[p]))
        /\ \A q \in PendingTo(p) :
             Len(log'[p]) = Len(log[p]) + 1 =>
                chan'[q] = Append(chan[q],
                                  IF sigq[p] # <<>>
                                  THEN SignalMsg(Head(sigq[p]).signal)
                                  ELSE EventMsg(InstancePort(Head(evq[p]).id),
                                                Head(evq[p]).ev))
        /\ (Idle(p) /\ Idle(p)') => log'[p] = log[p]]_vars

\* C12 witness: the downstream pipeline's channel holds two outputs of p1
\* of different kinds, unread, while p1 has a message in hand and messages
\* of two further kinds wait in its channel, the Signal among them not
\* first.
C12_Witness ==
    /\ Len(chan["p2"]) = 2
    /\ chan["p2"][1].type # chan["p2"][2].type
    /\ ~Idle("p1")
    /\ Len(chan["p1"]) = 2
    /\ chan["p1"][1].type \notin {"Signal", cur["p1"].msg.type}
    /\ chan["p1"][2].type = "Signal"

\* The state Stopped of pipeline p: the execution loop is left and the tick
\* task has ended.
Stopped(p) == LoopOver(p) /\ tick[p] = "over"

\* C13: once Stop is handled, every running pipeline actor eventually
\* leaves its execution loop and its tick generator stops sending.
C13_StopStops ==
    \A p \in Pipelines :
        (mstate = "stopped" /\ actor[p] = "running") ~> Stopped(p)

\* The Event or Signal message actor p has in hand has failed: in the
\* graph, or in a send to a destination.
Failed(p) ==
    /\ cur[p].msg.type \in {"Event", "Signal"}
    /\ \/ ~cur[p].ok
       \/ \E k \in DOMAIN log[p] : log[p][k].res = "err"

\* C14: an actor whose Event or Signal failed (graph error, closed channel,
\* id without port) is still running: once the arm is through it goes back
\* to its channel, and an actor waiting at its channel takes the next
\* message there is.
C14_FailureNotFatal ==
    \A p \in Pipelines :
        /\ Failed(p) => actor[p] = "running"
        /\ (Failed(p) /\ Done(p)) => ENABLED Finish(p)
        /\ (actor[p] = "running" /\ Idle(p) /\ chan[p] # <<>>) =>
              ENABLED ActorStep(p)

\* C14 witness: a send of the message in hand has failed, the arm is
\* through, and the next message waits in the channel.
C14_Witness ==
    \E p \in Pipelines :
        /\ Failed(p) /\ Done(p)
        /\ \E k \in DOMAIN log[p] : log[p][k].res = "err"
        /\ chan[p] # <<>>

\* Actor p takes the message at the head of its channel, of one of types.
Takes(p, types) ==
    /\ Idle(p)
    /\ chan[p] # <<>>
    /\ Head(chan[p]).type \in types
    /\ cur'[p].msg = Head(chan[p])

\* C15: handling ConnectOfframp or ConnectPipeline (port, id, addr) leaves
\* the routing table with (id, destination) appended at the end of port's
\* list (a list of one when port had none), the earlier entries of the
\* list in their order, and every other port's list as it was.
C15_ConnectAppends ==
    [][\A p \in Pipelines :
        Takes(p, {"ConnectOfframp", "ConnectPipeline"}) =>
            LET m == Head(chan[p])
                e == IF m.type = "ConnectOfframp"
                     THEN OfframpEntry(m.id, m.addr)
                     ELSE PipelineEntry(m.id, m.addr)
                old == IF m.port \in DOMAIN dests[p]
                       THEN dests[p][m.port] ELSE <<>>
            IN  /\ DOMAIN dests'[p] = DOMAIN dests[p] \cup {m.port}
                /\ Len(dests'[p][m.port]) = Len(old) + 1
                /\ dests'[p][m.port][Len(old) + 1] = e
                /\ \A i \in DOMAIN old : dests'[p][m.port][i] = old[i]
                /\ \A port \in DOMAIN dests[p] \ {m.port} :
                     dests'[p][port] = dests[p][port]]_vars

\* C15 witness: a Connect message has been handled for a port that had
\* entries, with another port in the table.
C15_Witness ==
    \E p \in Pipelines :
        /\ Handled(p, "ConnectPipeline")
        /\ Len(dests[p][cur[p].msg.port]) >= 3
        /\ dests[p][cur[p].msg.port][1].kind = "Offramp"
        /\ DOMAIN dests[p] = Ports

\* C16: handling DisconnectOutput(port, id) leaves in port's list exactly
\* the entries with another id, in their order; the port's entry is gone
\* when none is left; every other port's list is as it was; an unknown
\* port or id changes nothing.
C16_DisconnectOutput ==
    [][\A p \in Pipelines :
        Takes(p, {"DisconnectOutput"}) =>
            LET m == Head(chan[p])
                old == IF m.port \in DOMAIN dests[p]
                       THEN dests[p][m.port] ELSE <<>>
                kept == {i \in DOMAIN old : old[i].id # m.id}
                Nth(n) == CHOOSE i \in kept :
                            Cardinality({j \in kept : j <= i}) = n
            IN  /\ DOMAIN dests'[p] =
                     IF kept = {} THEN DOMAIN dests[p] \ {m.port}
                     ELSE DOMAIN dests[p]
                /\ kept # {} =>
                     /\ Len(dests'[p][m.port]) = Cardinality(kept)
                     /\ \A n \in 1..Cardinality(kept) :
                          dests'[p][m.port][n] = old[Nth(n)]
                /\ \A port \in DOMAIN dests[p] \ {m.port} :
                     dests'[p][port] = dests[p][port]
                /\ (m.port \notin DOMAIN dests[p] \/ kept = DOMAIN old) =>
                     dests'[p] = dests[p]]_vars

\* C16 witness: DisconnectOutput has been handled for a port whose list
\* keeps two entries of different ids, neither the disconnected id, with
\* another port in the table.
C16_Witness ==
    \E p \in Pipelines :
        /\ Handled(p, "DisconnectOutput")
        /\ DOMAIN dests[p] = Ports
        /\ LET l == dests[p][cur[p].msg.port] IN
            /\ Len(l) = 2
            /\ l[1].id # l[2].id
            /\ \A i \in DOMAIN l : l[i].id # cur[p].msg.id

\* The ids sources register under.
SourceIds == {URL(x, NoPort) : x \in Sources}

\* C17: ConnectOnramp(id, addr) leaves id registered once, with addr, and
\* the other registrations as they were; DisconnectInput(id) leaves id
\* unregistered and the others as they were; nothing else changes the
\* registrations; and handling an insight that selects Trigger or Restore
\* sets out to send it once to each source registered at that moment and
\* to no other, and when the handling is through exactly these were sent.
C17_Sources ==
    [][\A p \in Pipelines :
        /\ Takes(p, {"ConnectOnramp"}) =>
              LET m == Head(chan[p]) IN
              /\ DOMAIN onramps'[p] = DOMAIN onramps[p] \cup {m.id}
              /\ onramps'[p][m.id] = m.addr
              /\ \A id \in DOMAIN onramps[p] \ {m.id} :
                   onramps'[p][id] = onramps[p][id]
        /\ Takes(p, {"DisconnectInput"}) =>
              LET m == Head(chan[p]) IN
              /\ DOMAIN onramps'[p] = DOMAIN onramps[p] \ {m.id}
              /\ \A id \in DOMAIN onramps'[p] : onramps'[p][id] = onramps[p][id]
        /\ onramps'[p] # onramps[p] =>
              Takes(p, {"ConnectOnramp", "DisconnectInput"})
        /\ LET n == IF Idle(p) THEN 0 ELSE Len(cur[p].flags) IN
           (cur'[p] # NoCur /\ Len(cur'[p].flags) = n + 1) =>
              LET f == cur'[p].flags[n + 1]
                  due(id) ==
                      Len(SelectSeq(ctlq'[p], LAMBDA op :
                              /\ op.i = n + 1
                              /\ op.id = id
                              /\ op.addr = onramps[p][id]
                              /\ op.msg = IF f.trigger THEN "Trigger"
                                          ELSE "Restore"))
              IN  /\ \A id \in DOMAIN onramps[p] :
                       due(id) = IF f.trigger \/ f.restore THEN 1 ELSE 0
                  /\ Len(ctlq'[p]) = IF f.trigger \/ f.restore
                                     THEN Cardinality(DOMAIN onramps[p]) ELSE 0
        /\ (ctlq[p] # <<>> /\ ctlq'[p] # ctlq[p]) =>
              /\ ctlq'[p] = Tail(ctlq[p])
              /\ Head(ctlq[p]).addr \notin full
              /\ log'[p] = Append(log[p], Logged("ctl", Head(ctlq[p]), "ok"))
        /\ (Len(log'[p]) = Len(log[p]) + 1 /\ log'[p][Len(log'[p])].what = "ctl") =>
              ctlq[p] # <<>> /\ ctlq'[p] = Tail(ctlq[p])]_vars

\* C17 witness: an insight selecting Trigger has been handled with one
\* source registered and the other not: the first was sent one Trigger,
\* the second nothing.
C17_Witness ==
    \E p \in Pipelines : \E id \in SourceIds :
        /\ Handled(p, "Insight")
        /\ cur[p].flags[1].trigger
        /\ DOMAIN onramps[p] = {id}
        /\ Ctls(p, 1, id, "Trigger") = 1
        /\ Len(log[p]) = 1

\* C18: while a Signal message is processed, the forwards of the signal
\* come first, then the Trigger/Restore sends of the insights, then the
\* sends of the events the signal produced: no insight is handled and no
\* event sent while a forward is left to make, no event is sent while an
\* insight is left to handle, and nothing at all is sent when the graph
\* failed on the signal.
C18_SignalOrder ==
    \A p \in Pipelines :
        cur[p].msg.type = "Signal" =>
            LET Rank(l) == CASE l.what = "signal" -> 1
                             [] l.what = "ctl" -> 2
                             [] OTHER -> 3
            IN  /\ \A k, l \in DOMAIN log[p] :
                     k < l => Rank(log[p][k]) <= Rank(log[p][l])
                /\ sigq[p] # <<>> =>
                     /\ cur[p].flags = <<>>
                     /\ \A k \in DOMAIN log[p] : log[p][k].what = "signal"
                /\ (nins[p] > 0 \/ ctlq[p] # <<>>) =>
                     \A k \in DOMAIN log[p] : log[p][k].what # "event"
                /\ ~cur[p].ok => log[p] = <<>>

\* C18 witness: a Signal has been processed during which the signal was
\* forwarded to a destination, then an insight made a source be sent a
\* control message, then an event the signal produced was sent to that
\* destination.
C18_Witness ==
    \E p \in Pipelines :
        /\ Handled(p, "Signal")
        /\ \E i, j, k \in DOMAIN log[p] :
             /\ i < j /\ j < k
             /\ log[p][i].what = "signal" /\ log[p][i].res = "ok"
             /\ log[p][j].what = "ctl"
             /\ log[p][k].what = "event" /\ log[p][k].res = "ok"
             /\ log[p][k].op.addr = log[p][i].op.addr

\* A step in which a message is appended to pipeline p's channel by neither
\* the outside world nor an actor: by p's tick task.
TickSent(p) ==
    /\ Len(chan'[p]) = Len(chan[p]) + 1
    /\ budget' = budget
    /\ log' = log

\* C19: what the tick task of pipeline p puts into a channel is one Tick
\* signal, at the end of p's own channel, while the task runs and the
\* channel has its receiver; such a step changes nothing else. The task
\* ends only by a send that fails because the receiver is gone, changing
\* nothing else, and once ended it sends nothing and stays ended.
C19_TickOnly ==
    [][\A p \in Pipelines :
        /\ TickSent(p) =>
              /\ chan' = [chan EXCEPT ![p] = Append(@, SignalMsg("Tick"))]
              /\ tick[p] = "running" /\ HasReceiver(p)
              /\ UNCHANGED <<dests, onramps, closed, sigq, nins, evq, cur,
                             mgrvars>>
        /\ (tick[p] = "running" /\ tick'[p] # "running") =>
              /\ tick'[p] = "over"
              /\ ~HasReceiver(p)
              /\ UNCHANGED <<chan, dests, onramps, closed, sigq, nins, evq,
                             cur, log>>
        /\ tick[p] = "over" => tick'[p] = "over" /\ ~TickSent(p)]_vars

\* C19 witness: the tick task of one pipeline has ended on a failed send,
\* while the tick of another pipeline's task waits in that pipeline's
\* channel.
C19_Witness ==
    \E p, q \in Pipelines :
        /\ tick[p] = "over"
        /\ tick[q] = "running"
        /\ chan[q] # <<>> /\ Head(chan[q]) = SignalMsg("Tick")

\* C20: handling Create with a config that does not build has the error
\* for its answer and starts neither the actor thread nor the tick task,
\* and leaves every channel and actor as it was; what is sent as the reply
\* to a Create is the answer the manager held for it; a pipeline that was
\* not started is never answered with an Addr and never has a message in
\* its channel or in hand.
C20_NoStartOnBuildError ==
    [][/\ (/\ mstate = "running"
           /\ mchan # <<>>
           /\ Head(mchan).type = "Create"
           /\ mchan' = Tail(mchan)
           /\ ~Builds(Head(mchan).config)) =>
              /\ outcome'[Head(mchan).id] = "err"
              /\ actor'[Head(mchan).id] = "none"
              /\ tick'[Head(mchan).id] = "none"
              /\ UNCHANGED <<chan, cur, dests, onramps>>
       /\ \A p \in Pipelines :
            reply'[p] # reply[p] => reply'[p] = outcome[p] /\ outcome[p] # "none"
       /\ \A p \in Pipelines :
            (actor[p] = "none" /\ actor'[p] = "none") =>
                /\ tick'[p] = "none"
                /\ reply'[p] # "addr" /\ outcome'[p] # "addr"
                /\ chan'[p] = <<>> /\ cur'[p] = NoCur]_vars

\* C20 witness: Create for a config that does not build has been answered
\* with the error, and the pipeline has no actor and no tick task, while
\* another pipeline runs.
C20_Witness ==
    \E p, q \in Pipelines :
        /\ reply[p] = "err" /\ actor[p] = "none" /\ tick[p] = "none"
        /\ actor[q] = "running" /\ ~Idle(q)

\* C21: a step changes an actor's routing table only by that actor taking
\* a ConnectOfframp, ConnectPipeline or DisconnectOutput message, and its
\* registered sources only by it taking a ConnectOnramp or DisconnectInput
\* message; taking an Event, Signal or Insight message, and every step made
\* while one is in hand, whether it fails or not, leaves both as they were.
C21_FrameOfTables ==
    [][\A p \in Pipelines :
        /\ dests'[p] # dests[p] =>
              Takes(p, {"ConnectOfframp", "ConnectPipeline", "DisconnectOutput"})
        /\ onramps'[p] # onramps[p] =>
              Takes(p, {"ConnectOnramp", "DisconnectInput"})
        /\ (\/ Takes(p, {"Event", "Signal", "Insight"})
            \/ cur[p].msg.type \in {"Event", "Signal", "Insight"}) =>
              /\ dests'[p] = dests[p]
              /\ onramps'[p] = onramps[p]]_vars

\* C21 witness: an Event whose routing failed has been processed by an
\* actor whose routing table has both ports.
C21_Witness ==
    \E p \in Pipelines :
        /\ Handled(p, "Event")
        /\ \E k \in DOMAIN log[p] : log[p][k].res = "err"
        /\ DOMAIN dests[p] = Ports

\* The position (from one) of the innermost shadow of id, 0 when id is
\* not shadowed.
Innermost(sv, id) ==
    LET hits == {i \in DOMAIN sv : sv[i] = id}
    IN  IF hits = {} THEN 0 ELSE CHOOSE i \in hits : \A j \in hits : j <= i

\* C27: after any sequence of var_id calls the indices handed out are
\* exactly 0..n-1 for the n distinct resolved names, the same name always
\* got the same index, and two different names never share an index.
C27_DenseIndices ==
    LET names == {h[1] : h \in handed}
        idxs == {h[2] : h \in handed}
        Dense(l) ==
            /\ {l[n] : n \in DOMAIN l} = 0 .. (Cardinality(DOMAIN l) - 1)
            /\ \A m, n \in DOMAIN l : l[m] = l[n] => m = n
    IN  /\ idxs = 0 .. (Cardinality(names) - 1)
        /\ \A g \in handed : \A h \in handed : (g[1] = h[1]) <=> (g[2] = h[2])
        /\ handed = {<<n, locals[n]>> : n \in DOMAIN locals}
        /\ Dense(locals)

\* C27 witness: three names have slots and the last var_id call asked for
\* a name that already had one.
C27_Witness ==
    /\ Cardinality(handed) >= 3
    /\ ret.op = "var_id"
    /\ ret.idx < Cardinality(DOMAIN locals) - 1

\* C28: while an identifier is shadowed, var_id resolves it to the slot of
\* its innermost shadow in the map in place, which differs from the slot of
\* the outer local of the same name, from the slot it resolved to before
\* and from the slot of every other shadow in scope; when the shadow ends
\* the identifier resolves to the slot it had before the shadow again.
C28_ShadowSlots ==
    /\ [](\A id \in Idents :
            LET i == Innermost(shadowed_vars, id)
                l == VarIdLocals(locals, shadowed_vars, id)
                r == VarIdIdx(locals, shadowed_vars, id)
            IN  i # 0 =>
                  /\ r = l[ShadowName(i - 1)]
                  /\ slots[i] # NoSlot => r = slots[i]
                  /\ id \in DOMAIN l => l[id] # r
                  /\ outer[i] # r
                  /\ \A j \in DOMAIN shadowed_vars :
                        j # i =>
                          /\ slots[j] # r
                          /\ ShadowName(j - 1) \in DOMAIN l => l[ShadowName(j - 1)] # r)
    /\ [][Len(shadowed_vars') < Len(shadowed_vars) =>
            LET n == Len(shadowed_vars)
            IN  outer[n] # NoSlot =>
                  VarIdIdx(locals', shadowed_vars', shadowed_vars[n]) = outer[n]]_vars

\* C28 witness: a is shadowed twice, has an outer local slot, and var_id
\* of a just returned the slot of the inner shadow.
C28_Witness ==
    /\ shadowed_vars = <<"a", "a">>
    /\ "a" \in DOMAIN locals
    /\ ret = Returned("var_id", "a", slots[2])

\* A nonempty string of decimal digits.
IsDecimal(s) ==
    /\ s # <<>>
    /\ \A i \in DOMAIN s : \E d \in 0 .. 9 : Digits[d + 1] = s[i]

\* The chunk given to the last process call leaves the frame it is in
\* incomplete: no end of the header yet, a header announcing more bytes
\* than follow it, or fewer bytes than the frame still lacks.
NoFrameCompleted ==
    IF before.state.tag = "ExpectFrameSize"
    THEN LET pos == FirstSpacePos(data)
             size_str == before.frame_buffer \o Slice(data, 0, pos)
         IN  \/ pos = -1
             \/ /\ IsDecimal(size_str)
                /\ Len(data) - (pos + 1) < DigitsValue(size_str)
    ELSE /\ before.state.bytes >= 0
         /\ Len(data) < before.state.bytes

\* C29: for a chunk that does not complete a frame, the empty chunk
\* included, process returns Ok with an empty list of frames.
C29_IncompleteIsOkEmpty ==
    (returned.out # "none" /\ NoFrameCompleted) => returned = Ok(<<>>)

RECURSIVE HeaderGarbage(_, _)
\* Walking source frame by frame from the start of a header whose first
\* bytes are buf, a header is met whose bytes before the space are not a
\* decimal number.
HeaderGarbage(buf, source) ==
    LET pos == FirstSpacePos(source)
        size_str == buf \o Slice(source, 0, pos)
        end == pos + 1 + DigitsValue(size_str)
    IN  IF pos = -1 THEN FALSE
        ELSE IF ~IsDecimal(size_str) THEN TRUE
        ELSE IF end <= Len(source) THEN HeaderGarbage(<<>>, Slice(source, end, Len(source)))
        ELSE FALSE

\* C30: when the chunk given to process holds a frame header whose bytes
\* before the first space are not a decimal number (at its start, after
\* the frames it completes, or after the rest of the frame the
\* preprocessor was waiting for), process returns an error and no frame.
C30_GarbageLengthIsError ==
    LET n == before.state.bytes
        garbage ==
            IF before.state.tag = "ExpectFrameSize"
            THEN HeaderGarbage(before.frame_buffer, data)
            ELSE /\ n >= 0
                 /\ Len(data) >= n
                 /\ HeaderGarbage(<<>>, Slice(data, n, Len(data)))
    IN  (returned.out # "none" /\ garbage) => returned = Err

\* C26: a record constructor is folded to a Literal exactly when every
\* field name and every field value is a Literal, a list constructor
\* exactly when every element is one; the Literal has the constructor's
\* mid, and a constructor that is not folded is returned unchanged.
C26_RecordListFold ==
    (expr.struct \in {"Record", "List"} /\ reduced.res # "none") =>
        LET all_lit ==
                IF expr.struct = "Record"
                THEN \A i \in DOMAIN expr.fields :
                        /\ expr.fields[i].name.node = "Literal"
                        /\ expr.fields[i].value.node = "Literal"
                ELSE \A i \in DOMAIN expr.exprs : expr.exprs[i].node = "Literal"
        IN  /\ reduced.res = "ok"
            /\ reduced.v.node = "Literal" <=> all_lit
            /\ reduced.v.node = "Literal" => reduced.v.mid = expr.mid
            /\ reduced.v.node # "Literal" => reduced.v = Node(expr.struct, expr)

\* C26 witness: a record of two fields with literal names and values was
\* folded to a literal object with the record's mid.
C26_Witness ==
    /\ expr.struct = "Record"
    /\ Len(expr.fields) = 2
    /\ expr.mid = 2
    /\ reduced.res = "ok"
    /\ reduced.v.node = "Literal"
    /\ reduced.v.mid = 2
    /\ DOMAIN reduced.v.value.fields = {"a", "b"}

\* C25: an invocation is folded to a Literal only when the function is
\* const and every argument is a Literal; then the outcome is the Literal
\* or, when the function raised an error, that error; in every other case
\* the result is the same invocation, its arguments unchanged, as Invoke1,
\* Invoke2 or Invoke3 for one, two or three arguments and Invoke for any
\* other number.
C25_InvokeFold ==
    (expr.struct = "Invoke" /\ reduced.res # "none") =>
        LET foldable ==
                /\ FunIsConst(expr.fun)
                /\ \A i \in DOMAIN expr.args : expr.args[i].node = "Literal"
            n == Len(expr.args)
            answer == FunInvoke(expr.fun, [i \in DOMAIN expr.args |-> expr.args[i].value])
        IN  IF foldable
            THEN IF answer.res = "ok"
                 THEN reduced = Good(Literal(expr.mid, answer.v))
                 ELSE reduced.res = "err"
            ELSE /\ reduced.res = "ok"
                 /\ reduced.v.self = expr
                 /\ reduced.v.node = (IF n \in 1 .. 3
                                      THEN <<"Invoke1", "Invoke2", "Invoke3">>[n]
                                      ELSE "Invoke")

\* C25 witness: math::succ(1) was folded to the literal 2.
C25_Witness ==
    /\ expr = Invoke(1, "math::succ", <<Literal(0, I64(1))>>)
    /\ reduced = Good(Literal(1, I64(2)))

\* C23: run evaluates the top-level expressions in order, with
\* result_needed set for the last one only; the first expression that
\* yields Drop, Emit or EmitEvent ends the run with Return::Drop,
\* Return::Emit {value, port} or Return::EmitEvent {port} and no later
\* expression is evaluated; a value v of the last expression makes the run
\* return Emit {value: v, port: None}.
C23_RunInOrder ==
    ran.res # "none" =>
        LET n == Len(script)
            stops == {i \in 1 .. n :
                        \/ RunExpr(script[i], event).res = "err"
                        \/ RunExpr(script[i], event).v.cont # "Cont"}
            k == IF stops = {} THEN n ELSE CHOOSE i \in stops : \A j \in stops : i <= j
            c == RunExpr(script[k], event)
        IN  /\ evaluated = [i \in 1 .. k |-> [expr |-> i, result_needed |-> (i = n)]]
            /\ c.res = "ok" =>
                  /\ c.v.cont = "Drop" => ran = Good(ReturnDrop)
                  /\ c.v.cont = "Emit" => ran = Good(ReturnEmit(c.v.value, c.v.port))
                  /\ c.v.cont = "EmitEvent" => ran = Good(ReturnEmitEvent(c.v.port))
                  /\ c.v.cont = "Cont" => ran = Good(ReturnEmit(c.v.value, PortNone))

\* C23 witness: of three expressions the first gave a value and the
\* second emitted 2 to the port err, which ended the run.
C23_Witness ==
    /\ Len(script) = 3
    /\ script[1] = Imut(Literal(1, I64(7)))
    /\ script[2] = Emit(Literal(1, I64(2)), "err")
    /\ ran = Good(ReturnEmit(I64(2), "err"))
    /\ evaluated = <<[expr |-> 1, result_needed |-> FALSE],
                     [expr |-> 2, result_needed |-> FALSE]>>

\* C24: the script `match event of case %{a > 5} => event.a + 1 default
\* => emit end` returns Emit {value: 11, port: None} for an event whose a
\* is 10 and EmitEvent {port: None} for an event whose a is 1.
C24_MatchScript ==
    (script = <<MatchScript>> /\ ran.res # "none") =>
        /\ event.fields["a"] = I64(10) => ran = Good(ReturnEmit(I64(11), PortNone))
        /\ event.fields["a"] = I64(1) => ran = Good(ReturnEmitEvent(PortNone))

\* C24 witness: the match script ran on {"a": 10} and emitted 11.
C24_Witness ==
    /\ script = <<MatchScript>>
    /\ event = Object([k \in {"a"} |-> I64(10)])
    /\ ran = Good(ReturnEmit(I64(11), PortNone))

\* C33: the eventset shared across messages is empty whenever the actor
\* starts processing a message, also after a message on which the graph or
\* the routing failed; so no event produced while one message was processed
\* is routed while a later one is.
C33_BufferEmpty ==
    \A p \in Pipelines : Idle(p) => eventset[p] = <<>>

\* C31: a Tick is never forwarded into another pipeline's channel: the
\* forward of a Tick to a pipeline destination sends nothing, while the
\* forward of a signal of another kind appends that signal to the
\* destination's channel; a Tick enters a pipeline's channel only in a step
\* of its own running tick task, in which no actor sends anything.
C31_TickNotForwarded ==
    [][\A p \in Pipelines :
        /\ (sigq[p] # <<>> /\ Len(log'[p]) = Len(log[p]) + 1) =>
              LET op == Head(sigq[p]) IN
              op.kind = "Pipeline" =>
                  IF op.signal = "Tick"
                  THEN /\ chan' = chan
                       /\ log'[p][Len(log'[p])].res = "skip"
                  ELSE chan' = [chan EXCEPT ![op.addr] =
                                   Append(@, SignalMsg(op.signal))]
        /\ (/\ Len(chan'[p]) = Len(chan[p]) + 1
            /\ chan'[p][Len(chan'[p])] = SignalMsg("Tick")) =>
              /\ tick[p] = "running"
              /\ log' = log
              /\ budget' = budget]_vars

\* C31 witness: a pipeline has processed a Tick with an offramp and a
\* pipeline among its destinations: the offramp was sent the Tick, the
\* pipeline was not.
C31_Witness ==
    \E p \in Pipelines :
        /\ Handled(p, "Signal") /\ cur[p].msg.kind = "Tick"
        /\ \E k, l \in DOMAIN log[p] :
             /\ log[p][k].what = "signal" /\ log[p][k].op.kind = "Pipeline"
             /\ log[p][k].res = "skip"
             /\ log[p][l].what = "signal" /\ log[p][l].op.kind = "Offramp"
             /\ log[p][l].res = "ok"

\* C32: every port of a routing table has at least one destination, so
\* that send_events, which takes the first len - 1 entries and the entry
\* len - 1 of the port's list unchecked, never reads outside the list.
C32_NoEmptyList ==
    \A p \in Pipelines : \A port \in DOMAIN dests[p] :
        /\ Len(dests[p][port]) >= 1
        /\ \A k \in DOMAIN evq[p] :
             evq[p][k].port \in DOMAIN dests[p]
                 /\ Len(dests[p][evq[p][k].port]) >= 1

\* C32 witness: send_events has served a port whose list has one entry,
\* the shortest a present port can have: no clone was sent, and the event
\* itself went to the entry len - 1.
C32_Witness ==
    \E p \in Pipelines :
        /\ Handled(p, "Event")
        /\ \E k \in DOMAIN log[p] :
             /\ log[p][k].what = "event" /\ log[p][k].res = "ok"
             /\ ~log[p][k].op.clone
             /\ Len(dests[p][log[p][k].op.port]) = 1
        /\ \A k \in DOMAIN log[p] : ~log[p][k].op.clone

\* The sends logged for the n-th pair of the eventset actor p drained.
SentFor(p, n) ==
    SelectSeq(log[p], LAMBDA l : l.what = "event" /\ l.op.n = n)

\* C34: after an Event message, nothing was sent for an event emitted on a
\* port the routing table has no entry for, and no send failed because of
\* it: a failed send is a send to a destination of the table that itself
\* fails; and when no send failed, every event on a port with an entry was
\* sent to each destination of that port.
C34_UnroutedDiscarded ==
    \A p \in Pipelines :
        (Handled(p, "Event") /\ cur[p].ok) =>
            LET es == cur[p].eventset
                d == dests[p]
            IN  /\ \A n \in DOMAIN es :
                     es[n].port \notin DOMAIN d => SentFor(p, n) = <<>>
                /\ \A k \in DOMAIN log[p] :
                     log[p][k].res = "err" =>
                        /\ log[p][k].op.port \in DOMAIN d
                        /\ EventSendFails(log[p][k].op)
                /\ (\A k \in DOMAIN log[p] : log[p][k].res = "ok") =>
                     \A n \in DOMAIN es :
                        es[n].port \in DOMAIN d =>
                            LET ops == FanOut(d[es[n].port], es[n].port, es[n].ev, n)
                            IN  SentFor(p, n) =
                                  [i \in DOMAIN ops |-> Logged("event", ops[i], "ok")]

\* C34 witness: the graph emitted an event on a port without an entry and
\* then one on a port with an entry; the second was sent, nothing failed.
C34_Witness ==
    \E p \in Pipelines :
        /\ Handled(p, "Event") /\ cur[p].ok
        /\ Len(cur[p].eventset) = 2
        /\ cur[p].eventset[1].port \notin DOMAIN dests[p]
        /\ cur[p].eventset[2].port \in DOMAIN dests[p]
        /\ log[p] # <<>>
        /\ \A k \in DOMAIN log[p] : log[p][k].res = "ok" /\ log[p][k].op.n = 2

\* C38: handling DisconnectOutput(port, id) leaves no entry with that id in
\* port's list, however many it had, and leaves the list of every other
\* port, entries with the same id included, and the registered sources as
\* they were.
C38_DisconnectOnlyPort ==
    [][\A p \in Pipelines :
        Takes(p, {"DisconnectOutput"}) =>
            LET m == Head(chan[p]) IN
            /\ m.port \in DOMAIN dests'[p] =>
                 \A i \in DOMAIN dests'[p][m.port] :
                     dests'[p][m.port][i].id # m.id
            /\ \A port \in Ports \ {m.port} :
                 /\ port \in DOMAIN dests'[p] <=> port \in DOMAIN dests[p]
                 /\ port \in DOMAIN dests[p] =>
                      dests'[p][port] = dests[p][port]
            /\ onramps' = onramps]_vars

\* C38 witness: DisconnectOutput(port, id) has been handled by a pipeline
\* with a registered source; port's list still has entries, none with the
\* id, and the other port still has two entries with the id.
C38_Witness ==
    \E p \in Pipelines : \E port \in Ports :
        /\ Handled(p, "DisconnectOutput")
        /\ DOMAIN dests[p] = Ports
        /\ port # cur[p].msg.port
        /\ Len(SelectSeq(dests[p][port], LAMBDA e : e.id = cur[p].msg.id)) = 2
        /\ \A i \in DOMAIN dests[p][cur[p].msg.port] :
             dests[p][cur[p].msg.port][i].id # cur[p].msg.id
        /\ DOMAIN onramps[p] # {}

\* C37: every call of parse ends: from one iteration of its header loop to
\* the next, source has become shorter by at least one byte, so that the
\* loop makes at most one iteration per byte of the chunk and one more; and
\* parse calls itself at most once.
C37_ParseTerminates ==
    /\ \A i \in 1 .. (Len(steps.sources) - 1) :
         steps.sources[i + 1] < steps.sources[i]
    /\ steps.sources # <<>> => steps.sources[1] <= Len(data)
    /\ Len(steps.sources) <= Len(data) + 1
    /\ steps.depth <= 1

\* C37 witness: called in ExpectBytes, parse completed the frame and called
\* itself on the rest of the chunk, where the header loop found a second
\* frame and went round again.
C37_Witness ==
    /\ before.state.tag = "ExpectBytes"
    /\ steps.depth = 1
    /\ Len(steps.sources) = 2
    /\ returned.out = "ok" /\ Len(returned.frames) = 2

\* C36: no call of process panics on a subtraction below zero or on a slice
\* outside the chunk, and in the state ExpectBytes(n) the number n of
\* bytes still missing from the frame is positive.
C36_NoUnderflow ==
    /\ returned.out # "panic"
    /\ state.tag # "Panicked"
    /\ state.tag = "ExpectBytes" => state.bytes > 0

\* C35: however a well-formed octet-counted stream is split into chunks,
\* process returns no error and does not panic, the frames returned so far
\* are the first frames of the stream, in order, and once the whole stream
\* has been read they are all its frames.
C35_ChunkingInvariance ==
    /\ returned.out \in {"none", "ok"}
    /\ Len(emitted) <= Len(stream)
    /\ \A i \in DOMAIN emitted : emitted[i] = stream[i]
    /\ unread = <<>> => emitted = stream

\* C39: Path::try_reduce replaces a path by a Literal only when it is a
\* constant path without segments whose index lies above the last reserved
\* slot, and then the literal carries the path's mid and the value
\* const_values holds at that index; a reference to window, group or args
\* and a constant path with segments come back as the same path; a
\* foldable reference whose index has no entry in const_values is an error.
C39_ConstFolding ==
    (expr.struct = "Path" /\ reduced.res # "none") =>
        LET isConstPath == expr.variant = "Const"
            reservedRef ==
                isConstPath
                    /\ expr.idx \in {WINDOW_CONST_ID, GROUP_CONST_ID, ARGS_CONST_ID}
            aboveReserved == expr.idx > LAST_RESERVED_CONST
            literal == reduced.res = "ok" /\ reduced.v.node = "Literal"
            same == reduced = Good(Node("Path", expr))
        IN /\ literal =>
                /\ isConstPath /\ expr.segments = <<>> /\ aboveReserved
                /\ expr.idx < Len(const_values)
                /\ reduced.v = Literal(expr.mid, const_values[expr.idx + 1])
           /\ reservedRef => same
           /\ (isConstPath /\ expr.segments # <<>>) => same
           /\ (isConstPath /\ expr.is_const /\ expr.segments = <<>>
                    /\ aboveReserved /\ expr.idx >= Len(const_values))
                => reduced.res = "err"

\* C39 witness: a reference to the first constant a script declared, the
\* slot after args, was folded to the literal of its value.
C39_Witness ==
    /\ expr.struct = "Path"
    /\ expr.variant = "Const"
    /\ expr.idx = LAST_RESERVED_CONST + 1
    /\ Len(const_values) = LAST_RESERVED_CONST + 2
    /\ reduced = Good(Literal(expr.mid, I64(1)))

\* The function first passed to register_fun under the qualified name mf.
FirstRegistered(mf, cs) ==
    LET first == CHOOSE k \in 1..Len(cs) :
            /\ Append(module, cs[k].name) = mf
            /\ \A j \in 1..(k - 1) : Append(module, cs[j].name) # mf
    IN cs[first]

\* C40: after any calls of register_fun every index in the functions map
\* is an index into func_vec, where the function first registered under
\* that qualified name is stored; a call that returns an error (duplicate)
\* leaves functions and func_vec as they were.
C40_RegistryConsistent ==
    [][/\ \A mf \in DOMAIN functions' :
            /\ functions'[mf] < Len(func_vec')
            /\ func_vec'[functions'[mf] + 1] = FirstRegistered(mf, calls')
       /\ registered'.res = "err" =>
            (functions' = functions /\ func_vec' = func_vec)]_vars

====
